---- MODULE Spec2Model ----
(***************************************************************************)
(* Model of the external edit bridge of src/extensions/amp-frame.ts:       *)
(* editText (lines 500-665), the launcher script it generates (lines       *)
(* 527-549) and the processes around it (zellij launch, the external       *)
(* editor, the in-process editor, the caller's abort signal, the clock).   *)
(*                                                                         *)
(* An action of editText is one resumption of the async function: the      *)
(* completion of the awaited call together with the synchronous code that  *)
(* follows it up to the next await.                                        *)
(***************************************************************************)
EXTENDS Integers, Sequences, FiniteSets, TLC

(* ------------------------------------------------------------------ *)
(* Bounds of the model                                                 *)
(* ------------------------------------------------------------------ *)

\* Clock ticks of TickMs that may pass within one LongWaitMs period.
MaxTicks == 6
\* Long waits (of LongWaitMs each) that may pass.
MaxLongWaits == 1
\* Temp directory names mkdtemp can draw from.
MaxDirs == 1
\* Edits the external editor may save before it exits.
MaxEdits == 1
\* Session events (session_start, session_switch) that may be delivered.
MaxEvents == 3
\* Editor objects the TUI may create.
MaxEditors == 2
\* Lines an editor may render.
MaxLines == 4
\* The terminal's width runs up to MaxWidth columns; WideWidth is one wide
\* terminal beyond that.
MaxWidth == 12
WideWidth == 19
\* Footer renders and branch changes that may happen.
MaxFooterEvents == 4

(* ------------------------------------------------------------------ *)
(* Program constants                                                   *)
(* ------------------------------------------------------------------ *)

PollIntervalMs == 200
DefaultTimeoutSeconds == 1800
MinTimeoutMs == 1000
MIN_FRAME_WIDTH == 6
JJ_CACHE_TTL == 5000
MAX_DESC == 24

\* Granularity of the modelled clock and the length of a long wait.
TickMs == PollIntervalMs
LongWaitMs == DefaultTimeoutSeconds * 1000

\* timeoutSeconds is a JS number; the model carries it in units of
\* 1/SecondUnits of a second so that fractions of a millisecond exist.
SecondUnits == 10 * 1000

(* ------------------------------------------------------------------ *)
(* Values                                                              *)
(* ------------------------------------------------------------------ *)

\* A JS object with optional properties is a function whose DOMAIN holds
\* the properties that are present.
Empty == [x \in {} |-> TRUE]
Has(obj, key) == key \in DOMAIN obj
OptField(key, vals) == {Empty} \cup {key :> v : v \in vals}

InputTexts == {"", "hello"}
Texts == InputTexts \cup {"hello world"}

DirNames == 1..MaxDirs

\* Characters of the sentinel file's content.
DigitChars == <<"0", "1", "2", "3", "4", "5", "6", "7", "8", "9">>
Whitespace == {" ", "\n"}

\* Exit codes the editor command may end with.
ExitCodes == {0, 130}

\* Results of `zellij run`: exit status and stderr.
LaunchResults ==
    { [code |-> 0, stderr |-> ""],
      [code |-> 1, stderr |-> "no session"],
      [code |-> 2, stderr |-> "floating panes unsupported"] }

NoResult == [none |-> TRUE]

\* The UI objects (ctx.ui) a session event may come with.
UiObjects == {"ui-a", "ui-b"}
\* The extension contexts of session events.
Contexts == [ui : UiObjects, hasUI : BOOLEAN]
\* The editor factories the application and other extensions install.
Factories == {"default", "mode-editor"}
\* What setEditorComponent can be called with: a factory or undefined.
ComponentArgs == Factories \cup {"undefined"}
\* What the original setEditorComponent has received: nothing yet, undefined,
\* or a factory inside a number of amp-frame wrappers.
NoComponent == [kind |-> "none", factory |-> "none", frames |-> 0]

\* The JS values undefined and null; a string s is "value" :> s.
JsUndefined == [undefined |-> TRUE]
JsNull == [null |-> TRUE]

\* The editText calls that may run side by side, and the locals of one that
\* has not been made.
Invocations == {"first", "second"}
NotCalled == [pc |-> "idle", tmpPath |-> "", start |-> 0, wake |-> 0, editedText |-> "",
              result |-> NoResult, scriptPc |-> "idle", exit_code |-> 0, edits |-> 0]

(* ------------------------------------------------------------------ *)
(* State                                                               *)
(* ------------------------------------------------------------------ *)

VARIABLES
    params,     \* the Params object editText was called with
    env,        \* process.env
    hasUI,      \* ctx.hasUI
    signal,     \* the AbortSignal argument: Empty (undefined) or [aborted |-> b]
    now,        \* Date.now(), ms
    dirs,       \* the temp directories that exist
    files,      \* the files that exist: <<dir, name>> -> content
    modes,      \* permission bits of files: <<dir, name>> -> "0644" | "0755"
    pc,         \* where editText is
    tmpPath,    \* local of editText: 0 before mkdtemp
    mode,       \* local of editText
    launch,     \* local of editText: result of the last pi.exec
    start,      \* local of editText
    wake,       \* when the pending sleep(200) resolves
    editedText, \* local of editText
    result,     \* the value of the return statement; NoResult before it
    execCalls,  \* the argument lists pi.exec("zellij", ...) was called with
    execResults,\* what those calls resolved to, in order
    uiCalls,    \* the prefills ctx.ui.editor was called with
    uiReturned, \* what ctx.ui.editor resolved to: Empty for undefined
    draftReads, \* how many times editText read the draft file
    scriptPc,   \* where the launcher script is
    scriptArgs, \* $1 $2 $3 of the launcher script
    exit_code,  \* the launcher script's exit_code
    edits,      \* saves the external editor has made
    hostPc,     \* where the caller of editText is: the tool's execute, the shortcut handler
    editorText, \* the input buffer: ctx.ui.getEditorText()
    branch,     \* ctx.sessionManager.getBranch()
    fallback,   \* local of the shortcut handler: Empty for undefined
    notifications, \* the ctx.ui.notify calls, in order
    setTextCalls,  \* the texts ctx.ui.setEditorText was called with
    toolReturn, \* what execute resolved to; NoResult before it
    frameLoaded,\* ampFrame(pi) has run
    handlers,   \* the events ampFrame registered setup for with pi.on
    currentCtx, \* module variable of amp-frame: Empty for undefined
    uiPatched,  \* ui[PATCHED] of each UI object
    wrappers,   \* how many times each UI object's setEditorComponent was replaced
    footers,    \* how many times setFooter was called on each UI object
    requested,  \* what ctx.ui.setEditorComponent of each UI object was last called with
    component,  \* what the original setEditorComponent of each UI object last received
    heap,       \* the editor objects that exist, by identity
    returned,   \* the identities the installed factories returned to the TUI
    events,     \* session events delivered so far
    inv,        \* the locals of editText calls that run side by side, per call
    renderCall, \* a call of the framing render: its inputs and what it returned
    cachedJjId, \* module variable of amp-frame: undefined, null or the change id
    cachedJjDesc,  \* module variable of amp-frame: null or the description shown
    cachedJjTime,  \* module variable of amp-frame: Date.now() of the last refresh, or 0
    footerShown,   \* the last render of the footer: its inputs and the line's left half
    footerLog   \* when the footer was rendered and when the branch changed, in order

vars == <<params, env, hasUI, signal, now, dirs, files, modes, pc, tmpPath, mode,
          launch, start, wake, editedText, result, execCalls, execResults,
          uiCalls, uiReturned, draftReads, scriptPc, scriptArgs, exit_code, edits,
          hostPc, editorText, branch, fallback, notifications, setTextCalls, toolReturn,
          frameLoaded, handlers, currentCtx, uiPatched, wrappers, footers, requested, component,
          heap, returned, events, inv, renderCall,
          cachedJjId, cachedJjDesc, cachedJjTime, footerShown, footerLog>>

bridgeLocals == <<tmpPath, mode, launch, start, wake, editedText, result,
                  execCalls, execResults, uiCalls, uiReturned, draftReads>>
callInputs == <<params, env, hasUI>>
scriptVars == <<scriptPc, scriptArgs, exit_code, edits>>
fsVars == <<dirs, files, modes>>
hostVars == <<hostPc, editorText, branch, fallback, notifications, setTextCalls, toolReturn>>
jjVars == <<cachedJjId, cachedJjDesc, cachedJjTime, footerShown, footerLog>>
paintVars == <<renderCall, jjVars>>
frameVars == <<frameLoaded, handlers, currentCtx, uiPatched, wrappers, footers, requested, component,
               heap, returned, events, paintVars>>

(* ------------------------------------------------------------------ *)
(* Pure helpers                                                        *)
(* ------------------------------------------------------------------ *)

Max(a, b) == IF a >= b THEN a ELSE b

Range(seq) == {seq[i] : i \in 1..Len(seq)}

\* Boolean(s) of a string or undefined (a missing property).
Boolean(obj, key) == Has(obj, key) /\ obj[key] /= ""

\* join(dir, name)
join(dir, name) == <<dir, name>>

\* Decimal digits of a natural number, as the shell's "%s" of $? prints it.
RECURSIVE Digits(_)
Digits(n) == IF n < 10 THEN <<DigitChars[n + 1]>>
             ELSE Digits(n \div 10) \o <<DigitChars[(n % 10) + 1]>>

\* printf "%s\n" "$exit_code"
printf(n) == Digits(n) \o <<"\n">>

\* String.prototype.trim
RECURSIVE TrimLeft(_)
TrimLeft(s) == IF s /= <<>> /\ Head(s) \in Whitespace THEN TrimLeft(Tail(s)) ELSE s
RECURSIVE TrimRight(_)
TrimRight(s) == IF s /= <<>> /\ s[Len(s)] \in Whitespace
                THEN TrimRight(SubSeq(s, 1, Len(s) - 1)) ELSE s
trim(s) == TrimRight(TrimLeft(s))

DigitValue(c) == CHOOSE d \in 0..9 : DigitChars[d + 1] = c

\* Number.parseInt(s, 10) of an unsigned string: the value of the longest
\* prefix of digits, as the set {value}; {} stands for NaN.
RECURSIVE ParseDigits(_, _)
ParseDigits(s, acc) ==
    IF s /= <<>> /\ Head(s) \in Range(DigitChars)
    THEN ParseDigits(Tail(s), acc * 10 + DigitValue(Head(s)))
    ELSE acc
parseInt(s) == IF s /= <<>> /\ Head(s) \in Range(DigitChars)
               THEN {ParseDigits(s, 0)} ELSE {}

\* Mutant: the requested timeout is ignored, the default is always used.
timeoutMs_IgnoresParam(p) == DefaultTimeoutSeconds * 1000

\* Mutant: no floor is applied to the requested timeout.
timeoutMs_NoFloor(p) ==
    LET seconds == IF Has(p, "timeoutSeconds") THEN p.timeoutSeconds
                   ELSE DefaultTimeoutSeconds * SecondUnits
    IN seconds \div (SecondUnits \div 1000)

\* Line 510: Math.max(1000, Math.floor((params.timeoutSeconds ?? 1800) * 1000)),
\* with timeoutSeconds in units of 1/SecondUnits s: floor(x * 1000) of
\* x = n/SecondUnits is n \div (SecondUnits/1000).
timeoutMs(p) ==
    LET seconds == IF Has(p, "timeoutSeconds") THEN p.timeoutSeconds
                   ELSE DefaultTimeoutSeconds * SecondUnits
    IN Max(MinTimeoutMs, seconds \div (SecondUnits \div 1000))

\* Mutant: the cleanup parameter is ignored.
cleanup_IgnoresParam(p) == TRUE

floating(p) == IF Has(p, "floating") THEN p.floating ELSE TRUE
cleanup(p) == IF Has(p, "cleanup") THEN p.cleanup ELSE TRUE
purpose(p) == IF Has(p, "purpose") THEN p.purpose ELSE "proposed text"

getEditorCommand(p, e) ==
    IF Has(p, "editorCommand") THEN p.editorCommand
    ELSE IF Has(e, "PI_EDIT_TEXT_EDITOR") THEN e.PI_EDIT_TEXT_EDITOR
    ELSE IF Has(e, "VISUAL") THEN e.VISUAL
    ELSE IF Has(e, "EDITOR") THEN e.EDITOR
    ELSE "nvim"

\* Mutant: the multiplexer is detected by the variable's presence alone.
inZellij_Presence(e) == Has(e, "ZELLIJ_SESSION_NAME")

\* Line 513.
inZellij(e) == Boolean(e, "ZELLIJ_SESSION_NAME")

getLaunchArgs(options) ==
    <<"run", "--close-on-exit", "--cwd", options.cwd>>
    \o (IF options.floating THEN <<"--floating", "--pinned", "true">> ELSE <<>>)
    \o <<"--name", "pi-edit", "--", options.scriptPath, options.textPath,
         options.donePath, options.editorCommand>>

\* Lines 523-525. The draft's name, "draft." and the sanitized extension, is
\* the one name "draft" here: no operation depends on the extension.
textPath == join(tmpPath, "draft")
donePath == join(tmpPath, "editor.done")
scriptPath == join(tmpPath, "run-editor.sh")

LaunchOptions(isFloating) ==
    [cwd |-> "cwd", floating |-> isFloating, scriptPath |-> scriptPath,
     textPath |-> textPath, donePath |-> donePath,
     editorCommand |-> getEditorCommand(params, env)]

(* ------------------------------------------------------------------ *)
(* File system                                                         *)
(* ------------------------------------------------------------------ *)

fileExists(path) == path \in DOMAIN files

\* writeFile / a shell redirect: fails when the directory is gone.
CanWrite(path) == path[1] \in dirs

Put(f, path, content) == [q \in DOMAIN f \cup {path} |-> IF q = path THEN content ELSE f[q]]

\* rm(dir, {recursive: true, force: true})
RmDirs(dir) == dirs \ {dir}
RmFiles(f, dir) == [q \in {r \in DOMAIN f : r[1] /= dir} |-> f[q]]

(* ------------------------------------------------------------------ *)
(* Initial state                                                       *)
(* ------------------------------------------------------------------ *)

\* timeoutSeconds values: 0.5 s (in 1/SecondUnits s), or omitted.
TimeoutInputs == {5000}

\* floating and cleanup default to true when omitted, so the inputs are
\* "omitted" and an explicit false.
ParamsSet ==
    { [text |-> t] @@ f @@ c @@ ts :
        t \in InputTexts,
        f \in OptField("floating", {FALSE}),
        c \in OptField("cleanup", {FALSE}),
        ts \in OptField("timeoutSeconds", TimeoutInputs) }

EnvSet == OptField("ZELLIJ_SESSION_NAME", {"", "main"})

SignalSet == OptField("aborted", {FALSE})

\* Lines 50 and 313-400 before ampFrame(pi) has run: nothing is registered,
\* patched or installed.
NotLoaded ==
    /\ frameLoaded = FALSE
    /\ handlers = {}
    /\ currentCtx = Empty
    /\ uiPatched = [u \in UiObjects |-> FALSE]
    /\ wrappers = [u \in UiObjects |-> 0]
    /\ footers = [u \in UiObjects |-> 0]
    /\ requested = [u \in UiObjects |-> "none"]
    /\ component = [u \in UiObjects |-> NoComponent]
    /\ heap = <<>>
    /\ returned = <<>>
    /\ events = 0

\* Lines 53-58: the module variables as declared; nothing has been rendered.
NotPainted ==
    /\ renderCall = Empty
    /\ cachedJjId = JsUndefined
    /\ cachedJjDesc = JsNull
    /\ cachedJjTime = 0
    /\ footerShown = Empty
    /\ footerLog = <<>>

\* editText has not been called: no temporary directory, no call made, no
\* result.
NotCalledYet ==
    /\ now = 0
    /\ dirs = {}
    /\ files = Empty
    /\ modes = Empty
    /\ tmpPath = 0
    /\ mode = "none"
    /\ launch = NoResult
    /\ start = 0
    /\ wake = 0
    /\ editedText = ""
    /\ result = NoResult
    /\ execCalls = <<>>
    /\ execResults = <<>>
    /\ uiCalls = <<>>
    /\ uiReturned = NoResult
    /\ draftReads = 0
    /\ scriptPc = "idle"
    /\ scriptArgs = <<>>
    /\ exit_code = 0
    /\ edits = 0
    /\ inv = [i \in Invocations |-> NotCalled]

\* Nothing has run yet.
Unstarted ==
    /\ NotCalledYet
    /\ NotLoaded
    /\ NotPainted

\* No host code is involved.
NoHost ==
    /\ editorText = ""
    /\ branch = <<>>
    /\ fallback = Empty
    /\ notifications = <<>>
    /\ setTextCalls = <<>>
    /\ toolReturn = NoResult

\* editText has just been called, on its own.
Fresh ==
    /\ Unstarted
    /\ pc = "start"
    /\ hostPc = "direct"
    /\ NoHost

Init ==
    /\ params \in ParamsSet
    /\ env \in EnvSet
    /\ hasUI \in BOOLEAN
    /\ signal \in SignalSet
    /\ Fresh

(* ------------------------------------------------------------------ *)
(* editText (lines 500-665)                                            *)
(* ------------------------------------------------------------------ *)

\* Mutant: the draft is prefilled with nothing.
originalText_Blank == ""

\* Line 506.
originalText == params.text

Terminal == {"done", "thrown"}

\* Mutant: the multiplexer test reads the variable's presence, not its truthiness.
NoInteractiveUi_Presence == ~hasUI /\ ~Has(env, "ZELLIJ_SESSION_NAME")

\* Line 515.
NoInteractiveUi == ~hasUI /\ ~inZellij(env)

\* Mutant: the cleanup runs after a return only, not after a thrown error.
AfterTry_ReturnOnly(cleanupOn, end) ==
    IF cleanupOn /\ end = "done" THEN "finally" ELSE end

\* Lines 660-664: the finally block awaits rm only when cleanup is on.
AfterTry(cleanupOn, end) == IF cleanupOn THEN "finally" ELSE end

\* A return statement inside the try block: the value is fixed, then the
\* finally block runs.
Return(value) ==
    /\ result' = value
    /\ pc' = AfterTry(cleanup(params), "done")

\* Mutant: the failure reports the first launch, not the last.
LaunchFailed_FirstAttempt(l) ==
    LET first == IF execResults /= <<>> THEN execResults[1] ELSE l
    IN [text |-> originalText,
        details |-> [ok |-> FALSE, reason |-> "zellij-launch-failed",
                     code |-> first.code, stderr |-> first.stderr]]

\* Lines 590-598.
LaunchFailed(l) ==
    [text |-> originalText,
     details |-> [ok |-> FALSE, reason |-> "zellij-launch-failed",
                  code |-> l.code, stderr |-> l.stderr]]

\* Mutant: an empty edited text is taken for "no value" (|| instead of ??).
UiOutcome_EmptyIsUndefined(editedViaUi) ==
    LET given == Has(editedViaUi, "value") /\ editedViaUi.value /= ""
        finalUiText == IF given THEN editedViaUi.value ELSE originalText
    IN [text |-> finalUiText,
        details |-> [ok |-> TRUE, mode |-> "ui-editor",
                     changed |-> finalUiText /= originalText,
                     cancelled |-> ~Has(editedViaUi, "value")]]

\* Mutant: the in-process editor declining is reported as a failure.
UiOutcome_CancelIsFailure(editedViaUi) ==
    LET finalUiText == IF Has(editedViaUi, "value") THEN editedViaUi.value
                       ELSE originalText
    IN [text |-> finalUiText,
        details |-> [ok |-> Has(editedViaUi, "value"), mode |-> "ui-editor",
                     changed |-> finalUiText /= originalText,
                     cancelled |-> ~Has(editedViaUi, "value")]]

\* Lines 602-611 and 650-659; editedViaUi is Empty for undefined.
UiOutcome(editedViaUi) ==
    LET finalUiText == IF Has(editedViaUi, "value") THEN editedViaUi.value
                       ELSE originalText
    IN [text |-> finalUiText,
        details |-> [ok |-> TRUE, mode |-> "ui-editor",
                     changed |-> finalUiText /= originalText,
                     cancelled |-> ~Has(editedViaUi, "value")]]

\* Mutant: a failed wait looks at the editor and reports its exit code.
WaitFailed_ReportsEditor(why, m) ==
    [text |-> originalText,
     details |-> [ok |-> FALSE, reason |-> why, mode |-> m,
                  exitCode |-> IF scriptPc \in {"exited", "opened", "finished"}
                               THEN {exit_code} ELSE {}]]

\* Mutant: a failed wait hands back the draft file's content.
WaitFailed_DraftText(why, m) ==
    [text |-> IF fileExists(textPath) THEN files[textPath] ELSE originalText,
     details |-> [ok |-> FALSE, reason |-> why, mode |-> m]]

\* Lines 617-620 and 624-627.
WaitFailed(why, m) ==
    [text |-> originalText, details |-> [ok |-> FALSE, reason |-> why, mode |-> m]]

\* Mutant: an editor that did not exit with 0 makes the outcome a failure.
EditedOutcome_FailsOnExitCode(text, exitRaw, m, cleanupOn, path) ==
    LET exitCode == parseInt(trim(exitRaw))
    IN [text |-> text,
        details |-> [ok |-> exitCode = {0}, mode |-> m,
                     changed |-> text /= originalText, exitCode |-> exitCode]
                    @@ (IF cleanupOn THEN Empty ELSE "tempFile" :> path)]

\* Mutant: changed tells whether the editor saved, not whether the text differs.
EditedOutcome_ChangedWhenSaved(text, exitRaw, m, cleanupOn, path) ==
    LET exitCode == parseInt(trim(exitRaw))
    IN [text |-> text,
        details |-> [ok |-> TRUE, mode |-> m, changed |-> edits > 0,
                     exitCode |-> exitCode]
                    @@ (IF cleanupOn THEN Empty ELSE "tempFile" :> path)]

\* Lines 635-646; exitCode is the set {n}, or {} for null.
EditedOutcome(text, exitRaw, m, cleanupOn, path) ==
    LET exitCode == parseInt(trim(exitRaw))
    IN [text |-> text,
        details |-> [ok |-> TRUE, mode |-> m, changed |-> text /= originalText,
                     exitCode |-> exitCode]
                    @@ (IF cleanupOn THEN Empty ELSE "tempFile" :> path)]

\* Mutant: the loop never looks at the clock.
PollDecision_NeverTimesOut(exists, sig, elapsed, limit) ==
    IF exists THEN "read"
    ELSE IF Has(sig, "aborted") /\ sig.aborted THEN "aborted"
    ELSE "sleep"

\* Mutant: the loop never looks at the abort signal.
PollDecision_IgnoresAbort(exists, sig, elapsed, limit) ==
    IF exists THEN "read"
    ELSE IF elapsed > limit THEN "timeout"
    ELSE "sleep"

\* Mutant: the timeout is tested before the abort signal.
PollDecision_TimeoutFirst(exists, sig, elapsed, limit) ==
    IF exists THEN "read"
    ELSE IF elapsed > limit THEN "timeout"
    ELSE IF Has(sig, "aborted") /\ sig.aborted THEN "aborted"
    ELSE "sleep"

\* Mutant: the signal and the clock are looked at before the sentinel.
PollDecision_SentinelLast(exists, sig, elapsed, limit) ==
    IF Has(sig, "aborted") /\ sig.aborted THEN "aborted"
    ELSE IF elapsed > limit THEN "timeout"
    ELSE IF exists THEN "read"
    ELSE "sleep"

\* Lines 615-630, one iteration of the wait: what the loop does given whether
\* the sentinel exists, the signal and the clock.
PollDecision(exists, sig, elapsed, limit) ==
    IF exists THEN "read"
    ELSE IF Has(sig, "aborted") /\ sig.aborted THEN "aborted"
    ELSE IF elapsed > limit THEN "timeout"
    ELSE "sleep"

\* Mutant: any failed launch is retried, floating or not.
RetryFixed_Always(l, isFloating) == l.code /= 0

\* Mutant: the mode is zellij-floating whatever was requested.
InitialMode_AlwaysFloating(isFloating) == "zellij-floating"

\* Line 557.
InitialMode(isFloating) == IF isFloating THEN "zellij-floating" ELSE "zellij-pane"

\* Line 572: whether a second, non-floating launch is made.
RetryFixed(l, isFloating) == l.code /= 0 /\ isFloating

\* zellij runs the launcher script in a new pane when the launch succeeds
\* and the script file is there and executable.
PaneStarts(l, args) ==
    /\ l.code = 0
    /\ scriptPc = "idle"
    /\ args[Len(args) - 3] \in DOMAIN modes
    /\ modes[args[Len(args) - 3]] = "0755"

StartPane(l, args) ==
    IF PaneStarts(l, args)
    THEN /\ scriptPc' = "editor"
         /\ scriptArgs' = SubSeq(args, Len(args) - 2, Len(args))
         /\ UNCHANGED <<exit_code, edits>>
    ELSE UNCHANGED scriptVars

\* Lines 506-520.
Start ==
    /\ pc = "start"
    /\ IF NoInteractiveUi
       THEN /\ result' = [text |-> originalText,
                          details |-> [ok |-> FALSE, reason |-> "no-interactive-ui"]]
            /\ pc' = "done"
       ELSE /\ pc' = "mkdtemp"
            /\ UNCHANGED result
    /\ UNCHANGED <<callInputs, frameVars, inv, hostVars, signal, now, fsVars, tmpPath, mode, launch, start,
                   wake, editedText, execCalls, execResults, uiCalls, uiReturned, draftReads, scriptVars>>

\* Lines 522-525.
Mkdtemp ==
    /\ pc = "mkdtemp"
    /\ \E d \in DirNames \ dirs :
        /\ dirs' = dirs \cup {d}
        /\ tmpPath' = d
    /\ pc' = "write_text"
    /\ UNCHANGED <<callInputs, frameVars, inv, hostVars, signal, now, files, modes, mode, launch, start, wake,
                   editedText, result, execCalls, execResults, uiCalls, uiReturned, draftReads, scriptVars>>

\* Line 552.
WriteText ==
    /\ pc = "write_text"
    /\ files' = Put(files, textPath, originalText)
    /\ modes' = Put(modes, textPath, "0644")
    /\ pc' = "write_script"
    /\ UNCHANGED <<callInputs, frameVars, inv, hostVars, signal, now, dirs, bridgeLocals, scriptVars>>

\* Line 553.
WriteScript ==
    /\ pc = "write_script"
    /\ files' = Put(files, scriptPath, "runEditorScript")
    /\ modes' = Put(modes, scriptPath, "0644")
    /\ pc' = "chmod"
    /\ UNCHANGED <<callInputs, frameVars, inv, hostVars, signal, now, dirs, bridgeLocals, scriptVars>>

\* Lines 554-570 and 649: chmod, then the first launch or the in-process editor
\* is requested.
Chmod ==
    /\ pc = "chmod"
    /\ modes' = Put(modes, scriptPath, "0755")
    /\ IF inZellij(env)
       THEN /\ mode' = InitialMode(floating(params))
            /\ execCalls' = Append(execCalls, getLaunchArgs(LaunchOptions(floating(params))))
            /\ pc' = "launch1"
            /\ UNCHANGED uiCalls
       ELSE /\ uiCalls' = Append(uiCalls, originalText)
            /\ pc' = "ui_editor"
            /\ UNCHANGED <<mode, execCalls>>
    /\ UNCHANGED <<callInputs, frameVars, inv, hostVars, signal, now, dirs, files, tmpPath, launch, start, wake,
                   editedText, result, execResults, uiReturned, draftReads, scriptVars>>

\* Mutant: a failed launch is reported without trying the in-process editor.
AfterLaunch_NoFallback(l) ==
    IF l.code /= 0
    THEN /\ Return(LaunchFailed(l))
         /\ UNCHANGED <<uiCalls, start>>
    ELSE /\ start' = now
         /\ pc' = "poll"
         /\ UNCHANGED <<result, uiCalls>>

\* Lines 588-614: after the last launch.
AfterLaunch(l) ==
    IF l.code /= 0
    THEN IF ~hasUI
         THEN /\ Return(LaunchFailed(l))
              /\ UNCHANGED <<uiCalls, start>>
         ELSE /\ uiCalls' = Append(uiCalls, originalText)
              /\ pc' = "ui_fallback"
              /\ UNCHANGED <<result, start>>
    ELSE /\ start' = now
         /\ pc' = "poll"
         /\ UNCHANGED <<result, uiCalls>>

\* Lines 559-572: the first pi.exec resolves.
Launch1 ==
    /\ pc = "launch1"
    /\ \E l \in LaunchResults :
        /\ launch' = l
        /\ execResults' = Append(execResults, l)
        /\ StartPane(l, execCalls[Len(execCalls)])
        /\ IF RetryFixed(l, floating(params))
           THEN /\ execCalls' = Append(execCalls, getLaunchArgs(LaunchOptions(FALSE)))
                /\ pc' = "launch2"
                /\ UNCHANGED <<result, uiCalls, start>>
           ELSE /\ AfterLaunch(l)
                /\ UNCHANGED execCalls
    /\ UNCHANGED <<callInputs, frameVars, inv, hostVars, signal, now, fsVars, tmpPath, mode, wake, editedText,
                   uiReturned, draftReads>>

\* Lines 573-586: the second pi.exec resolves.
Launch2 ==
    /\ pc = "launch2"
    /\ \E l \in LaunchResults :
        /\ launch' = l
        /\ execResults' = Append(execResults, l)
        /\ StartPane(l, execCalls[Len(execCalls)])
        /\ AfterLaunch(l)
    /\ mode' = "zellij-pane"
    /\ UNCHANGED <<callInputs, frameVars, inv, hostVars, signal, now, fsVars, tmpPath, wake, editedText,
                   execCalls, uiReturned, draftReads>>

\* Lines 601-611: ctx.ui.editor resolves after a failed launch.
UiFallback ==
    /\ pc = "ui_fallback"
    /\ \E editedViaUi \in OptField("value", Texts) :
        /\ uiReturned' = editedViaUi
        /\ Return(UiOutcome(editedViaUi))
    /\ UNCHANGED <<callInputs, frameVars, inv, hostVars, signal, now, fsVars, tmpPath, mode, launch, start, wake,
                   editedText, execCalls, execResults, uiCalls, draftReads, scriptVars>>

\* Lines 649-659: ctx.ui.editor resolves outside the multiplexer.
UiEditor ==
    /\ pc = "ui_editor"
    /\ \E editedViaUi \in OptField("value", Texts) :
        /\ uiReturned' = editedViaUi
        /\ Return(UiOutcome(editedViaUi))
    /\ UNCHANGED <<callInputs, frameVars, inv, hostVars, signal, now, fsVars, tmpPath, mode, launch, start, wake,
                   editedText, execCalls, execResults, uiCalls, draftReads, scriptVars>>

\* Lines 615-630: fileExists(donePath) resolves and the loop body runs.
Poll ==
    /\ pc = "poll"
    /\ LET d == PollDecision(fileExists(donePath), signal, now - start, timeoutMs(params))
       IN CASE d = "read" -> /\ pc' = "read_text"
                             /\ UNCHANGED <<result, wake>>
            [] d = "aborted" -> /\ Return(WaitFailed("aborted", mode))
                                /\ UNCHANGED wake
            [] d = "timeout" -> /\ Return(WaitFailed("timeout", mode))
                                /\ UNCHANGED wake
            [] OTHER -> /\ wake' = now + PollIntervalMs
                        /\ pc' = "sleep"
                        /\ UNCHANGED result
    /\ UNCHANGED <<callInputs, frameVars, inv, hostVars, signal, now, fsVars, tmpPath, mode, launch, start,
                   editedText, execCalls, execResults, uiCalls, uiReturned, draftReads, scriptVars>>

\* Line 630: the timer of sleep(200) fires.
Sleep ==
    /\ pc = "sleep"
    /\ now >= wake
    /\ pc' = "poll"
    /\ UNCHANGED <<callInputs, frameVars, inv, hostVars, signal, now, fsVars, bridgeLocals, scriptVars>>

\* Line 633.
ReadText ==
    /\ pc = "read_text"
    /\ fileExists(textPath)
    /\ editedText' = files[textPath]
    /\ draftReads' = draftReads + 1
    /\ pc' = "read_done"
    /\ UNCHANGED <<callInputs, frameVars, inv, hostVars, signal, now, fsVars, tmpPath, mode, launch, start, wake,
                   result, execCalls, execResults, uiCalls, uiReturned, scriptVars>>

\* Lines 634-646.
ReadDone ==
    /\ pc = "read_done"
    /\ fileExists(donePath)
    /\ Return(EditedOutcome(editedText, files[donePath], mode, cleanup(params), textPath))
    /\ UNCHANGED <<callInputs, frameVars, inv, hostVars, signal, now, fsVars, tmpPath, mode, launch, start, wake,
                   editedText, execCalls, execResults, uiCalls, uiReturned, draftReads, scriptVars>>

\* An awaited call of the try block rejects (an I/O error, a failed spawn,
\* a rejected editor promise): the error propagates through the finally block.
ThrowPoints == {"write_text", "write_script", "chmod", "launch1", "launch2",
                "ui_fallback", "ui_editor", "read_text", "read_done"}

Throw ==
    /\ pc \in ThrowPoints
    /\ result' = [thrown |-> TRUE]
    /\ pc' = AfterTry(cleanup(params), "thrown")
    /\ UNCHANGED <<callInputs, frameVars, inv, hostVars, signal, now, fsVars, tmpPath, mode, launch, start, wake,
                   editedText, execCalls, execResults, uiCalls, uiReturned, draftReads, scriptVars>>

\* Line 522: mkdtemp rejects, outside the try block.
MkdtempThrows ==
    /\ pc = "mkdtemp"
    /\ result' = [thrown |-> TRUE]
    /\ pc' = "thrown"
    /\ UNCHANGED <<callInputs, frameVars, inv, hostVars, signal, now, fsVars, tmpPath, mode, launch, start, wake,
                   editedText, execCalls, execResults, uiCalls, uiReturned, draftReads, scriptVars>>

\* Lines 660-664: rm(tmpPath, {recursive, force}) resolves and editText ends.
Finally ==
    /\ pc = "finally"
    /\ dirs' = RmDirs(tmpPath)
    /\ files' = RmFiles(files, tmpPath)
    /\ modes' = RmFiles(modes, tmpPath)
    /\ pc' = IF Has(result, "thrown") THEN "thrown" ELSE "done"
    /\ UNCHANGED <<callInputs, frameVars, inv, hostVars, signal, now, bridgeLocals, scriptVars>>

(* ------------------------------------------------------------------ *)
(* The launcher script (lines 527-549) and the editor it runs          *)
(* ------------------------------------------------------------------ *)

\* Lines 531-534: editor_cmd="$3", replaced by nvim when it is empty.
editor_cmd == IF scriptArgs[3] = "" THEN "nvim" ELSE scriptArgs[3]

\* A path as the shell holds it, a string.
PathText(path) == ToString(path)

\* The words of an editor command. A command not listed is one word.
Words(cmd) ==
    CASE cmd = "code --wait {file}" -> <<"code", "--wait", "{file}">>
      [] cmd = "diff {file} {file}" -> <<"diff", "{file}", "{file}">>
      [] cmd = "ed $1 --wait" -> <<"ed", "$1", "--wait">>
      [] cmd = "ed {file} $1" -> <<"ed", "{file}", "$1">>
      [] cmd = "ed <draft of the first directory>" -> <<"ed", PathText(join(1, "draft"))>>
      [] OTHER -> <<cmd>>

\* [[ "$editor_cmd" == *"..."* ]], word by word.
Contains(cmd, word) == word \in Range(Words(cmd))

\* Lines 538-545. The script file holds what the template literal of line 527
\* evaluates to: \$1 of line 541 is $1 there, which the shell expands to the
\* script's first argument, the draft path, before it matches.
InvocationStyle(cmd, file) ==
    IF Contains(cmd, "{file}") THEN "template"
    ELSE IF Contains(cmd, PathText(file)) THEN "positional"
    ELSE "append"

\* sed 's#{file}#"$PI_EDIT_TEXT_FILE"#g' and the expansion of $1 by bash -lc:
\* every word equal to from becomes to, or is dropped when to is <<>>.
RECURSIVE Expand(_, _, _)
Expand(words, from, to) ==
    IF words = <<>> THEN <<>>
    ELSE (IF Head(words) = from THEN to ELSE <<Head(words)>>)
         \o Expand(Tail(words), from, to)

\* Lines 538-545: the argument list the editor is started with.
EditorArgv(cmd, file) ==
    LET style == InvocationStyle(cmd, file)
        path == <<PathText(file)>>
    IN IF style = "template"
       THEN Expand(Expand(Words(cmd), "{file}", path), "$1", <<>>)
       ELSE IF style = "positional"
       THEN Expand(Words(cmd), "$1", path)
       ELSE Expand(Words(cmd), "$1", <<>>) \o path

\* Lines 538-545: the editor is running and saves the draft ($1).
EditorSave ==
    /\ scriptPc = "editor"
    /\ edits < MaxEdits
    /\ \E t \in Texts :
        /\ CanWrite(scriptArgs[1])
        /\ files' = Put(files, scriptArgs[1], t)
    /\ edits' = edits + 1
    /\ UNCHANGED <<callInputs, frameVars, inv, hostVars, signal, now, dirs, modes, pc, bridgeLocals, scriptPc,
                   scriptArgs, exit_code>>

\* Line 547: the editor command exits; exit_code=$?.
EditorExit ==
    /\ scriptPc = "editor"
    /\ \E c \in ExitCodes : exit_code' = c
    /\ scriptPc' = "exited"
    /\ UNCHANGED <<callInputs, frameVars, inv, hostVars, signal, now, fsVars, pc, bridgeLocals, scriptArgs, edits>>

\* Line 548, the redirect > "$done_file": the shell opens the file with
\* O_CREAT|O_TRUNC before printf runs. The open fails when the directory is gone.
ScriptOpenDone ==
    /\ scriptPc = "exited"
    /\ IF CanWrite(scriptArgs[2])
       THEN /\ files' = Put(files, scriptArgs[2], <<>>)
            /\ modes' = Put(modes, scriptArgs[2], "0644")
            /\ scriptPc' = "opened"
       ELSE /\ scriptPc' = "finished"
            /\ UNCHANGED <<files, modes>>
    /\ UNCHANGED <<callInputs, frameVars, inv, hostVars, signal, now, dirs, pc, bridgeLocals, scriptArgs,
                   exit_code, edits>>

\* Line 548, printf "%s\n" "$exit_code" writes to the open file.
ScriptWriteDone ==
    /\ scriptPc = "opened"
    /\ files' = IF fileExists(scriptArgs[2])
                THEN Put(files, scriptArgs[2], printf(exit_code)) ELSE files
    /\ scriptPc' = "finished"
    /\ UNCHANGED <<callInputs, frameVars, inv, hostVars, signal, now, dirs, modes, pc, bridgeLocals, scriptArgs,
                   exit_code, edits>>

(* ------------------------------------------------------------------ *)
(* The caller's abort signal and the clock                             *)
(* ------------------------------------------------------------------ *)

Abort ==
    /\ pc \notin Terminal
    /\ Has(signal, "aborted")
    /\ ~signal.aborted
    /\ signal' = [aborted |-> TRUE]
    /\ UNCHANGED <<callInputs, frameVars, inv, hostVars, now, fsVars, pc, bridgeLocals, scriptVars>>

\* Time passes. editText observes the clock only as Date.now() - start during
\* the wait, and it is suspended in sleep(200) for all but an instant of it:
\* the clock advances while the timer is pending.
Tick ==
    /\ pc = "sleep"
    /\ now < wake
    /\ (now - start) % LongWaitMs < MaxTicks * TickMs
    /\ now' = now + TickMs
    /\ UNCHANGED <<callInputs, frameVars, inv, hostVars, signal, fsVars, pc, bridgeLocals, scriptVars>>

\* The timer fires late: a long time passes at once (the host is suspended,
\* the event loop is blocked).
LongWait ==
    /\ pc = "sleep"
    /\ now - start < MaxLongWaits * LongWaitMs
    /\ now' = now + LongWaitMs
    /\ UNCHANGED <<callInputs, frameVars, inv, hostVars, signal, fsVars, pc, bridgeLocals, scriptVars>>

(* ------------------------------------------------------------------ *)
(* The edit_proposed_text tool (lines 687-729)                         *)
(* ------------------------------------------------------------------ *)

\* The text of a tool result, as the pieces it is put together from.
\* Lines 704: `exit ${code ?? "?"}` and `${stderr || "(empty)"}`.
LaunchFailedMessage(details) ==
    <<"Error: failed to open editor via zellij (exit ",
      IF Has(details, "code") THEN ToString(details.code) ELSE "?",
      "). stderr:\n",
      IF Boolean(details, "stderr") THEN details.stderr ELSE "(empty)">>

\* Mutant: a failed edit hands the text back like a successful one.
ToolResult_EchoesText(r) ==
    [content |-> <<r.text>>, details |-> r.details]

\* Lines 690-728: what execute returns for the outcome r of editText.
ToolResult(r) ==
    LET failed(why) == ~r.details.ok /\ r.details.reason = why
    IN IF failed("no-interactive-ui")
       THEN [content |-> <<"Error: interactive text editing requires zellij or a UI session.">>,
             details |-> r.details]
       ELSE IF failed("zellij-launch-failed")
       THEN [content |-> LaunchFailedMessage(r.details), details |-> r.details]
       ELSE IF failed("timeout")
       THEN [content |-> <<"Timed out waiting for editor to close.">>, details |-> r.details]
       ELSE IF failed("aborted")
       THEN [content |-> <<"Editing cancelled.">>, details |-> r.details]
       ELSE [content |-> <<r.text>>, details |-> r.details]

\* Lines 688-728: editText has returned to execute.
ToolReturn ==
    /\ hostPc = "tool_waiting"
    /\ pc = "done"
    /\ toolReturn' = ToolResult(result)
    /\ hostPc' = "tool_returned"
    /\ UNCHANGED <<callInputs, frameVars, inv, signal, now, fsVars, pc, bridgeLocals, scriptVars,
                   editorText, branch, fallback, notifications, setTextCalls>>

\* Line 688: editText has thrown and execute rejects.
ToolRejects ==
    /\ hostPc = "tool_waiting"
    /\ pc = "thrown"
    /\ hostPc' = "tool_rejected"
    /\ UNCHANGED <<callInputs, frameVars, inv, signal, now, fsVars, pc, bridgeLocals, scriptVars,
                   editorText, branch, fallback, notifications, setTextCalls, toolReturn>>

(* ------------------------------------------------------------------ *)
(* The ctrl+shift+e shortcut (lines 483-498 and 732-769)               *)
(* ------------------------------------------------------------------ *)

\* The characters of the texts the buffer and the conversation hold.
Chars(s) ==
    CASE s = "" -> <<>>
      [] s = " " -> <<" ">>
      [] s = "ok" -> <<"o", "k">>
      [] s = " ok " -> <<" ", "o", "k", " ">>
      [] s = "ok\nok" -> <<"o", "k", "\n", "o", "k">>
      [] s = "hello" -> <<"h", "e", "l", "l", "o">>
      [] s = "hello world" -> <<"h", "e", "l", "l", "o", " ", "w", "o", "r", "l", "d">>

KnownTexts == {"", " ", "ok", " ok ", "ok\nok", "hello", "hello world"}

\* The text made of the characters cs.
Text(cs) == CHOOSE s \in KnownTexts : Chars(s) = cs

\* Array.prototype.join("\n") of texts, as characters.
RECURSIVE JoinLines(_)
JoinLines(texts) ==
    IF texts = <<>> THEN <<>>
    ELSE IF Len(texts) = 1 THEN Chars(texts[1])
    ELSE Chars(texts[1]) \o <<"\n">> \o JoinLines(Tail(texts))

\* Lines 490-491: the texts of the parts of type "text".
RECURSIVE TextParts(_)
TextParts(content) ==
    IF content = <<>> THEN <<>>
    ELSE IF Head(content).type = "text"
    THEN <<Head(content).text>> \o TextParts(Tail(content))
    ELSE TextParts(Tail(content))

\* Mutant: the scan returns the oldest assistant text, not the latest.
RECURSIVE OldestAssistantText(_, _)
OldestAssistantText(b, i) ==
    IF i > Len(b) THEN Empty
    ELSE LET entry == b[i]
             text == trim(JoinLines(TextParts(entry.message.content)))
         IN IF entry.type = "message" /\ entry.message.role = "assistant" /\ Len(text) > 0
            THEN [value |-> Text(text)]
            ELSE OldestAssistantText(b, i + 1)

getLastAssistantText_Oldest(b) == OldestAssistantText(b, 1)

\* Lines 485-496: the loop from entry i down to the first.
RECURSIVE LastAssistantTextFrom(_, _)
LastAssistantTextFrom(b, i) ==
    IF i < 1 THEN Empty
    ELSE LET entry == b[i]
             text == trim(JoinLines(TextParts(entry.message.content)))
         IN IF entry.type /= "message" THEN LastAssistantTextFrom(b, i - 1)
            ELSE IF entry.message.role /= "assistant" THEN LastAssistantTextFrom(b, i - 1)
            ELSE IF Len(text) > 0 THEN [value |-> Text(text)]
            ELSE LastAssistantTextFrom(b, i - 1)

\* Lines 483-498: Empty stands for undefined.
getLastAssistantText(b) == LastAssistantTextFrom(b, Len(b))

\* current.trim().length > 0
NotBlank(current) == Len(trim(Chars(current))) > 0

\* Line 738.
ShortcutFallback(current, b) ==
    IF NotBlank(current) THEN Empty ELSE getLastAssistantText(b)

\* Line 739.
InitialText(current, fb) ==
    IF NotBlank(current) THEN current
    ELSE IF Has(fb, "value") THEN fb.value ELSE current

\* Lines 734-746: the handler runs up to its call of editText.
ShortcutHandler ==
    /\ hostPc = "shortcut_ready"
    /\ IF ~hasUI
       THEN /\ hostPc' = "shortcut_returned"
            /\ UNCHANGED <<params, fallback, pc>>
       ELSE LET fb == ShortcutFallback(editorText, branch)
            IN /\ fallback' = fb
               /\ params' = [text |-> InitialText(editorText, fb),
                             purpose |-> "current input",
                             fileExtension |-> "md",
                             floating |-> TRUE,
                             cleanup |-> TRUE]
               /\ pc' = "start"
               /\ hostPc' = "shortcut_waiting"
    /\ UNCHANGED <<env, hasUI, frameVars, inv, signal, now, fsVars, bridgeLocals, scriptVars,
                   editorText, branch, notifications, setTextCalls, toolReturn>>

\* Mutant: a failed edit also writes the outcome's text to the buffer.
SetsEditorText_Always(r) == TRUE

\* Lines 748-761: setEditorText is reached for a successful outcome only.
SetsEditorText(r) == r.details.ok

\* Mutant: an unchanged edit is always reported as "no text changes".
Notification_NoFallbackNote(r, fb) ==
    IF ~r.details.ok
    THEN IF r.details.reason = "timeout"
         THEN <<"External editor timed out", "warning">>
         ELSE IF r.details.reason = "zellij-launch-failed"
         THEN <<"Failed to launch zellij editor pane", "warning">>
         ELSE <<"Could not open editor", "warning">>
    ELSE IF r.details.changed
    THEN <<"Updated input from external editor", "info">>
    ELSE <<"Editor closed (no text changes)", "info">>

\* Lines 748-768: the one notify call of a run.
Notification(r, fb) ==
    IF ~r.details.ok
    THEN IF r.details.reason = "timeout"
         THEN <<"External editor timed out", "warning">>
         ELSE IF r.details.reason = "zellij-launch-failed"
         THEN <<"Failed to launch zellij editor pane", "warning">>
         ELSE <<"Could not open editor", "warning">>
    ELSE IF r.details.changed
    THEN <<"Updated input from external editor", "info">>
    ELSE IF Boolean(fb, "value")
    THEN <<"Loaded last assistant message in external editor", "info">>
    ELSE <<"Editor closed (no text changes)", "info">>

\* Lines 748-768: editText has returned to the handler.
ShortcutDone ==
    /\ hostPc = "shortcut_waiting"
    /\ pc = "done"
    /\ IF SetsEditorText(result)
       THEN /\ editorText' = result.text
            /\ setTextCalls' = Append(setTextCalls, result.text)
       ELSE UNCHANGED <<editorText, setTextCalls>>
    /\ notifications' = Append(notifications, Notification(result, fallback))
    /\ hostPc' = "shortcut_returned"
    /\ UNCHANGED <<callInputs, frameVars, inv, signal, now, fsVars, pc, bridgeLocals, scriptVars,
                   branch, fallback, toolReturn>>

\* Line 740: editText has thrown and the handler rejects.
ShortcutRejects ==
    /\ hostPc = "shortcut_waiting"
    /\ pc = "thrown"
    /\ hostPc' = "shortcut_rejected"
    /\ UNCHANGED <<callInputs, frameVars, inv, signal, now, fsVars, pc, bridgeLocals, scriptVars,
                   editorText, branch, fallback, notifications, setTextCalls, toolReturn>>

(* ------------------------------------------------------------------ *)
(* The amp-frame extension (lines 313-401)                             *)
(* ------------------------------------------------------------------ *)

\* Everything but the state of amp-frame.
editVars == <<params, env, hasUI, signal, now, fsVars, pc, bridgeLocals, scriptVars, hostVars,
              inv>>

\* Mutant: the kill switch is ignored.
FrameDisabled_Never(e) == FALSE

\* Line 320: process.env.PI_AMP_FRAME === "0".
FrameDisabled(e) == Has(e, "PI_AMP_FRAME") /\ e.PI_AMP_FRAME = "0"

\* Lines 319-400: ampFrame(pi) runs when the extension is loaded.
LoadAmpFrame ==
    /\ ~frameLoaded
    /\ frameLoaded' = TRUE
    /\ handlers' = IF FrameDisabled(env) THEN {} ELSE {"session_start", "session_switch"}
    /\ UNCHANGED <<editVars, paintVars, currentCtx, uiPatched, wrappers, footers, requested,
                   component, heap, returned, events>>

\* Mutant: the PATCHED marker is not looked at.
ShouldPatch_Unmarked(ctx) == ctx.hasUI

\* Lines 323-327: the patch is applied to a UI object once.
ShouldPatch(ctx) == ctx.hasUI /\ ~uiPatched[ctx.ui]

\* Lines 393-397, with 322-332 and 231-233: setup(_event, ctx).
setup(ctx) ==
    /\ currentCtx' = ctx
    /\ IF ShouldPatch(ctx)
       THEN /\ uiPatched' = [uiPatched EXCEPT ![ctx.ui] = TRUE]
            /\ wrappers' = [wrappers EXCEPT ![ctx.ui] = @ + 1]
       ELSE UNCHANGED <<uiPatched, wrappers>>
    /\ footers' = IF ctx.hasUI THEN [footers EXCEPT ![ctx.ui] = @ + 1] ELSE footers

\* pi emits session_start or session_switch: the handlers registered for it run.
SessionEvent ==
    /\ frameLoaded
    /\ events < MaxEvents
    /\ events' = events + 1
    /\ \E e \in {"session_start", "session_switch"}, ctx \in Contexts :
        IF e \in handlers
        THEN setup(ctx)
        ELSE UNCHANGED <<currentCtx, uiPatched, wrappers, footers>>
    /\ UNCHANGED <<editVars, paintVars, frameLoaded, handlers, requested, component, heap, returned>>

\* Lines 332-388: what reaches the original setEditorComponent when the
\* UI object's method, replaced layers times, is called with arg.
Installed(arg, layers) ==
    IF arg = "undefined"
    THEN [kind |-> "undefined", factory |-> "none", frames |-> 0]
    ELSE [kind |-> "factory", factory |-> arg, frames |-> layers]

\* The application or another extension calls ctx.ui.setEditorComponent.
SetEditorComponent ==
    /\ \E u \in UiObjects, arg \in ComponentArgs :
        /\ requested' = [requested EXCEPT ![u] = arg]
        /\ component' = [component EXCEPT ![u] = Installed(arg, wrappers[u])]
    /\ UNCHANGED <<editVars, paintVars, frameLoaded, handlers, currentCtx, uiPatched, wrappers,
                   footers, heap, returned, events>>

\* The editor object a factory of the application makes.
Pristine(f) ==
    [origin |-> "factory", factory |-> f, render |-> <<f>>, handleInput |-> f,
     borderColor |-> IF f = "default" THEN "function" ELSE "none"]

\* Mutant: the decorator also takes over the editor's input handling.
Decorate_TakesInput(editor) ==
    [editor EXCEPT !.render = <<"amp-frame">> \o @, !.handleInput = "amp-frame"]

\* Lines 340-385: editor.render is replaced by the framing render, which
\* calls the render it replaced.
Decorate(editor) == [editor EXCEPT !.render = <<"amp-frame">> \o @]

\* Lines 338-387: the factory inside frames wrappers is called; each wrapper
\* decorates the object the factory it wraps has returned, and returns it.
RECURSIVE CallFactory(_, _)
CallFactory(f, frames) ==
    IF frames = 0 THEN Pristine(f) ELSE Decorate(CallFactory(f, frames - 1))

\* The TUI calls the factory it was given and gets an editor object.
CreateEditor ==
    /\ Len(heap) < MaxEditors
    /\ \E u \in UiObjects :
        /\ component[u].kind = "factory"
        /\ heap' = Append(heap, CallFactory(component[u].factory, component[u].frames))
        /\ returned' = Append(returned, Len(heap) + 1)
    /\ UNCHANGED <<editVars, paintVars, frameLoaded, handlers, currentCtx, uiPatched, wrappers,
                   footers, requested, component, events>>

(* ------------------------------------------------------------------ *)
(* The framing render (lines 17-45, 94-104, 158-223, 342-384)          *)
(* ------------------------------------------------------------------ *)

\* A string is the sequence of its code points, an SGR escape sequence
\* (ESC [ ... m) being one element; "dash" is U+2500, "middle-dot" U+00B7,
\* and the frame characters go by their names.
Codes == {"ESC[2m", "ESC[39m"}
TOP_LEFT == "top-left"
TOP_RIGHT == "top-right"
BOTTOM_LEFT == "bottom-left"
BOTTOM_RIGHT == "bottom-right"
VERTICAL == "vertical"

\* String.prototype.length counts UTF-16 units: four for ESC [ 2 m, five for
\* ESC [ 3 9 m, one for every other element used here.
Units(t) == IF t = "ESC[2m" THEN 4 ELSE IF t = "ESC[39m" THEN 5 ELSE 1
RECURSIVE length(_)
length(s) == IF s = <<>> THEN 0 ELSE Units(Head(s)) + length(Tail(s))

\* String.prototype.repeat
repeat(t, n) == [i \in 1..n |-> t]

IsGlyph(t) == t \notin Codes
IsDash(t) == t = "dash"

\* Line 19.
stripAnsi(s) == SelectSeq(s, IsGlyph)

\* Lines 21-25: the code points left after stripAnsi.
visWidth(s) == Len(stripAnsi(s))

\* Lines 37-45: dashes / plain.length >= 0.4.
isBorderLine(line) ==
    LET plain == stripAnsi(line)
        dashes == Len(SelectSeq(plain, IsDash))
    IN IF length(plain) = 0 THEN FALSE ELSE 10 * dashes >= 4 * length(plain)

\* A colour function: the identity, one that wraps its argument in SGR
\* codes, or one that throws.
Paint(colorFn, s) == IF colorFn = "tint" THEN <<"ESC[2m">> \o s \o <<"ESC[39m">> ELSE s

\* Lines 167-173: the index (from 0) of the last border line after line 0,
\* -1 when there is none.
BottomIdx(lines) ==
    LET found == {i \in 1..(Len(lines) - 1) : isBorderLine(lines[i + 1])}
    IN IF found = {} THEN 0 - 1 ELSE CHOOSE i \in found : \A j \in found : j <= i

\* Mutant: a content line is never padded.
ContentLine_Unpadded(line, innerWidth, colorFn) ==
    Paint(colorFn, <<VERTICAL>>) \o line \o Paint(colorFn, <<VERTICAL>>)

\* Lines 184-194.
ContentLine(line, innerWidth, colorFn) ==
    LET left == Paint(colorFn, <<VERTICAL>>)
        right == Paint(colorFn, <<VERTICAL>>)
        vw == visWidth(line)
    IN IF vw = innerWidth THEN left \o line \o right
       ELSE IF vw < innerWidth THEN left \o line \o repeat(" ", innerWidth - vw) \o right
       ELSE left \o line \o right

\* Mutant: the label is put in whenever there is room for one dash before it.
LabelFits_OneDash(leftDashes) == leftDashes >= 1

\* Line 203.
LabelFits(leftDashes) == leftDashes >= 4

\* Lines 196-215; bottomLabel is Empty for null or undefined.
BottomLine(line, innerWidth, colorFn, bottomLabel) ==
    IF Has(bottomLabel, "text") /\ bottomLabel.text /= <<>>
    THEN LET labelChunk == <<" ">> \o bottomLabel.text \o <<" ">>
             labelVisWidth == length(labelChunk)
             trailingDash == 1
             leftDashes == innerWidth - labelVisWidth - trailingDash
         IN IF LabelFits(leftDashes)
            THEN Paint(colorFn, <<BOTTOM_LEFT>>)
                 \o Paint(colorFn, repeat("dash", leftDashes))
                 \o Paint(bottomLabel.colorFn, labelChunk)
                 \o Paint(colorFn, <<"dash">>)
                 \o Paint(colorFn, <<BOTTOM_RIGHT>>)
            ELSE Paint(colorFn, <<BOTTOM_LEFT>>) \o line \o Paint(colorFn, <<BOTTOM_RIGHT>>)
    ELSE Paint(colorFn, <<BOTTOM_LEFT>>) \o line \o Paint(colorFn, <<BOTTOM_RIGHT>>)

\* Lines 158-223. The result is "value" :> out, Empty for null, or
\* "thrown" :> TRUE when colorFn throws at its first call (line 177).
transformFrame(lines, innerWidth, colorFn, bottomLabel) ==
    IF Len(lines) < 2 THEN Empty
    ELSE IF ~isBorderLine(lines[1]) THEN Empty
    ELSE LET bottomIdx == BottomIdx(lines)
         IN IF bottomIdx < 1 THEN Empty
            ELSE IF colorFn = "throws" THEN "thrown" :> TRUE
            ELSE "value" :>
                   [i \in 1..Len(lines) |->
                      IF i = 1
                      THEN Paint(colorFn, <<TOP_LEFT>>) \o lines[1] \o Paint(colorFn, <<TOP_RIGHT>>)
                      ELSE IF i - 1 < bottomIdx
                      THEN ContentLine(lines[i], innerWidth, colorFn)
                      ELSE IF i - 1 = bottomIdx
                      THEN BottomLine(lines[i], innerWidth, colorFn, bottomLabel)
                      ELSE <<" ">> \o lines[i] \o <<" ">>]

\* Array.prototype.join(" · ")
RECURSIVE JoinStatuses(_)
JoinStatuses(texts) ==
    IF texts = <<>> THEN <<>>
    ELSE IF Len(texts) = 1 THEN texts[1]
    ELSE texts[1] \o <<" ", "middle-dot", " ">> \o JoinStatuses(Tail(texts))

\* Lines 95-104; ref is Empty for an unset footerDataRef, "throws" :> TRUE
\* when getExtensionStatuses throws, and otherwise holds the values of the
\* status map in insertion order. The result is Empty for null.
getExtensionStatusLabel(ref) ==
    IF ~Has(ref, "statuses") THEN Empty
    ELSE IF ref.statuses = <<>> THEN Empty
    ELSE "value" :> JoinStatuses(ref.statuses)

\* What the editors of the application render for a line of each kind at
\* width w: a border of dashes, a tinted border that carries a title, a
\* tinted short text, a text that fills the width, one that overflows it by
\* one, and an empty line.
LineAt(kind, w) ==
    CASE kind = "border" -> repeat("dash", w)
      [] kind = "titled" ->
           LET whole == <<"dash", "dash", " ", "x", "x", "x", " ">> \o repeat("dash", w - 7)
           IN <<"ESC[2m">> \o SubSeq(whole, 1, w) \o <<"ESC[39m">>
      [] kind = "text" -> <<"ESC[2m", "x", " ", "x", "ESC[39m">>
      [] kind = "full" -> repeat("x", w)
      [] kind = "long" -> repeat("x", w + 1)
      [] OTHER -> <<>>

LineKinds == {"border", "titled", "text", "full", "long", "blank"}

\* Line 340: the render the editor came with; shape is the editor's content,
\* one kind per line.
originalRender(shape, width) == [i \in 1..Len(shape) |-> LineAt(shape[i], width)]

\* Lines 349-352.
BorderColorFn(borderColor) ==
    IF borderColor = "none" THEN "plain" ELSE borderColor

\* Lines 356-370: theme.fg paints the label, or throws and leaves it as it is.
BottomLabel(statusText, theme) ==
    IF Has(statusText, "value") /\ statusText.value /= <<>>
    THEN [text |-> statusText.value, colorFn |-> IF theme = "throws" THEN "plain" ELSE "tint"]
    ELSE Empty

\* Mutant: framing starts one column earlier.
TooNarrow_Below5(width) == width < MIN_FRAME_WIDTH - 1

\* Line 343.
TooNarrow(width) == width < MIN_FRAME_WIDTH

\* Lines 342-384: editor.render(width) as replaced by the wrapper.
render(c) ==
    IF TooNarrow(c.width) THEN originalRender(c.shape, c.width)
    ELSE LET innerWidth == c.width - 2
             lines == originalRender(c.shape, innerWidth)
             colorFn == BorderColorFn(c.borderColor)
             statusText == getExtensionStatusLabel(c.footerDataRef)
             bottomLabel == BottomLabel(statusText, c.theme)
             framed == transformFrame(lines, innerWidth, colorFn, bottomLabel)
         IN IF Has(framed, "value") THEN framed.value
            ELSE originalRender(c.shape, c.width)

\* The TUI calls editor.render(width).
Render ==
    /\ Has(renderCall, "width")
    /\ ~Has(renderCall, "out")
    /\ renderCall' = renderCall @@ ("out" :> render(renderCall))
    /\ UNCHANGED <<editVars, jjVars, frameLoaded, handlers, currentCtx, uiPatched, wrappers,
                   footers, requested, component, heap, returned, events>>

\* Editor contents of up to MaxLines lines.
Shapes == UNION {[1..n -> LineKinds] : n \in 0..MaxLines}

\* Where the colours and the statuses come from: the editor's borderColor,
\* the footer data (no status, the status "ab", an empty status, the
\* statuses "ab" and "c", a tinted status "a") and the theme.
Surroundings ==
    LET ab == <<"a", "b">>
        around(b, ref, t) == [borderColor |-> b, footerDataRef |-> ref, theme |-> t]
    IN { around("none", Empty, "ok"),
         around("tint", "throws" :> TRUE, "ok"),
         around("throws", [statuses |-> <<ab>>], "ok"),
         around("none", [statuses |-> <<ab>>], "ok"),
         around("tint", [statuses |-> <<ab>>], "ok"),
         around("tint", [statuses |-> <<ab>>], "throws"),
         around("none", [statuses |-> <<>>], "ok"),
         around("none", [statuses |-> << <<>> >>], "ok"),
         around("tint", [statuses |-> <<ab, <<"c">> >>], "ok"),
         around("none", [statuses |-> << <<"ESC[2m", "a", "ESC[39m">> >>], "ok") }

\* Terminal widths: one too narrow for a frame, the narrow ones that take a
\* frame, and a wide one.
Widths == ((MIN_FRAME_WIDTH - 1)..MaxWidth) \cup {WideWidth}

\* The editor has some content, the terminal some width, and the TUI is
\* about to render.
Repaint ==
    /\ renderCall = Empty
    /\ \E shape \in Shapes, width \in Widths, around \in Surroundings :
         renderCall' = [shape |-> shape, width |-> width] @@ around
    /\ UNCHANGED <<editVars, jjVars, frameLoaded, handlers, currentCtx, uiPatched, wrappers,
                   footers, requested, component, heap, returned, events>>

\* The steps of editText, of the launcher script and of the clock.
EditSteps ==
    \/ Start
    \/ Mkdtemp
    \/ MkdtempThrows
    \/ WriteText
    \/ WriteScript
    \/ Chmod
    \/ Launch1
    \/ Launch2
    \/ UiFallback
    \/ UiEditor
    \/ Poll
    \/ Sleep
    \/ ReadText
    \/ ReadDone
    \/ Throw
    \/ Finally
    \/ EditorSave
    \/ EditorExit
    \/ ScriptOpenDone
    \/ ScriptWriteDone
    \/ Tick
    \/ LongWait

Next ==
    \/ EditSteps
    \/ Abort

Spec == Init /\ [][Next]_vars

\* The event loop runs every continuation of editText that is ready (a
\* resolved fileExists, readFile or rm, a fired timer), and the clock
\* advances. Nothing is assumed of the editor, the launcher script or the
\* caller's signal.
Fairness ==
    /\ WF_vars(Poll)
    /\ WF_vars(Sleep)
    /\ WF_vars(ReadText \/ ReadDone \/ Throw)
    /\ WF_vars(Finally)
    /\ WF_vars(Tick)
    /\ WF_vars(LongWait)

\* The invocations whose termination is checked: whether the wait ends does
\* not depend on the text, on the launch attempted first or on the UI that a
\* failed launch falls back to, and a signal that is never aborted stands for
\* no signal.
LiveInit ==
    /\ Init
    /\ hasUI
    /\ params.text = "hello"
    /\ ~Has(params, "cleanup")
    /\ ~Has(params, "floating")
    /\ Has(signal, "aborted")
    /\ Has(env, "ZELLIJ_SESSION_NAME") => env.ZELLIJ_SESSION_NAME /= ""

FairSpec == LiveInit /\ [][Next]_vars /\ Fairness

\* timeoutSeconds requests around the floor, in 1/SecondUnits s: -1 s, 0 s,
\* 0.5 s, 0.9999 s, 1.0019 s and 1.2 s.
WideTimeoutInputs == {0 - SecondUnits, 0, 5000, 9999, 10019, 12000}

\* The invocations that differ in the timeout requested.
TimeoutInit ==
    /\ params \in { [text |-> "hello"] @@ ts :
                      ts \in OptField("timeoutSeconds", WideTimeoutInputs) }
    /\ env \in OptField("ZELLIJ_SESSION_NAME", {"main"})
    /\ hasUI \in BOOLEAN
    /\ signal \in OptField("aborted", {FALSE}) \ {Empty}
    /\ Fresh

SpecTimeout == TimeoutInit /\ [][Next]_vars

\* execute has called editText with the tool call's parameters and signal.
ToolInit ==
    /\ params \in {p \in ParamsSet : p.text = "hello"}
    /\ env \in EnvSet
    /\ hasUI \in BOOLEAN
    /\ signal \in SignalSet \ {Empty}
    /\ Unstarted
    /\ pc = "start"
    /\ hostPc = "tool_waiting"
    /\ NoHost

ToolNext ==
    \/ Next
    \/ ToolReturn
    \/ ToolRejects

\* The extension is about to be loaded; PI_AMP_FRAME is unset, "0", or
\* something else.
FrameInit ==
    /\ params = [text |-> ""]
    /\ env \in OptField("PI_AMP_FRAME", {"0", "1", ""})
    /\ hasUI = TRUE
    /\ signal = Empty
    /\ Unstarted
    /\ pc = "idle"
    /\ hostPc = "direct"
    /\ NoHost

FrameNext ==
    \/ LoadAmpFrame
    \/ SessionEvent
    \/ SetEditorComponent
    \/ CreateEditor

SpecFrame == FrameInit /\ [][FrameNext]_vars

\* The extension is loaded and a decorated editor is installed; nothing has
\* been rendered yet.
RenderInit ==
    /\ params = [text |-> ""]
    /\ env = Empty
    /\ hasUI = TRUE
    /\ signal = Empty
    /\ Unstarted
    /\ pc = "idle"
    /\ hostPc = "direct"
    /\ NoHost

RenderNext ==
    \/ Repaint
    \/ Render

SpecRender == RenderInit /\ [][RenderNext]_vars

(* ------------------------------------------------------------------ *)
(* The footer's jj revision (lines 55-92, 230-258)                     *)
(* ------------------------------------------------------------------ *)

\* The clock of the footer model moves in steps of half the cache's
\* lifetime, so that renders fall before, on and after its end.
JjStepMs == JJ_CACHE_TTL \div 2
JjClockEnd == MaxTicks * JjStepMs

\* Date.now(): milliseconds since 1970, of which the model keeps the part
\* since the process started; the start is later than 1970 by more than the
\* cache's lifetime.
ProcessStart == 4 * JJ_CACHE_TTL
DateNow(clock) == ProcessStart + clock

\* An execSync call that threw (jj missing, not a repository, a non-zero
\* exit, or the 2000 ms timeout of lines 68 and 79).
Threw == [thrown |-> TRUE]

\* A description of n characters.
DescOf(n) == [i \in 1..n |-> "d"]

\* What the two jj commands print, and how long they take together.
JjOutputs ==
    { [rev |-> Threw],
      [rev |-> "value" :> <<"\n">>],
      [rev |-> "value" :> <<"k", "x">>, desc |-> Threw],
      [rev |-> "value" :> <<" ", "k", "x", "\n">>, desc |-> "value" :> <<"f", "i", "x", "\n">>],
      [rev |-> "value" :> <<"k", "x">>, desc |-> "value" :> <<"\n">>],
      [rev |-> "value" :> <<"k", "x">>, desc |-> "value" :> DescOf(MAX_DESC + 1)] }

JjDurations == {0, JjStepMs}

\* What footerData.getGitBranch() returns.
GitBranches == {JsNull, "value" :> <<"m">>}

\* A JS string or null used as a condition.
Truthy(v) == Has(v, "value") /\ v.value /= <<>>

\* Mutant: the cache never expires.
CacheFresh_NeverExpires(id, time, dateNow) == id /= JsUndefined

\* Line 63: the cache is still good.
CacheFresh(id, time, dateNow) == id /= JsUndefined /\ dateNow - time < JJ_CACHE_TTL

\* Lines 83-85.
ShownDesc(desc) ==
    IF desc = <<>> THEN JsNull
    ELSE IF Len(desc) > MAX_DESC THEN "value" :> (SubSeq(desc, 1, MAX_DESC) \o <<"ellipsis">>)
    ELSE "value" :> desc

\* Lines 64-90: what the two execSync calls leave in cachedJjId and
\* cachedJjDesc.
Queried(jj) ==
    IF Has(jj.rev, "thrown") THEN [id |-> JsNull, desc |-> JsNull]
    ELSE LET rev == trim(jj.rev.value)
         IN IF rev = <<>> THEN [id |-> JsNull, desc |-> JsNull]
            ELSE IF Has(jj.desc, "thrown") THEN [id |-> JsNull, desc |-> JsNull]
            ELSE [id |-> "value" :> rev, desc |-> ShownDesc(trim(jj.desc.value))]

\* Lines 250-258: the parts of the left half of the footer line.
LeftParts(id, desc, gitBranch) ==
    <<"cwd">> \o
    (IF Truthy(id)
     THEN <<[jj |-> id.value, desc |-> IF Truthy(desc) THEN desc.value ELSE <<>>]>>
     ELSE IF Truthy(gitBranch) THEN <<[git |-> gitBranch.value]>>
     ELSE <<>>)

\* render(width) of the footer, lines 240-259: refreshJjRevision (lines
\* 61-92), then the left half of the line. The execSync calls block the
\* process for as long as jj takes.
FooterRender ==
    /\ \E u \in UiObjects : footers[u] > 0
    /\ Len(footerLog) < MaxFooterEvents
    /\ \E jj \in JjOutputs, took \in JjDurations, gitBranch \in GitBranches :
        LET dateNow == DateNow(now)
            fresh == CacheFresh(cachedJjId, cachedJjTime, dateNow)
            cached == IF fresh THEN [id |-> cachedJjId, desc |-> cachedJjDesc]
                      ELSE Queried(jj)
        IN /\ IF fresh
              THEN UNCHANGED <<now, cachedJjTime>>
              ELSE /\ now + took <= JjClockEnd
                   /\ now' = now + took
                   /\ cachedJjTime' = dateNow
           /\ cachedJjId' = cached.id
           /\ cachedJjDesc' = cached.desc
           /\ footerShown' = [jj |-> IF fresh THEN footerShown.jj ELSE jj,
                               gitBranch |-> gitBranch,
                               left |-> LeftParts(cached.id, cached.desc, gitBranch)]
           /\ footerLog' = Append(footerLog, [kind |-> "render", at |-> dateNow, ranJj |-> ~fresh])
    /\ UNCHANGED <<params, env, hasUI, signal, fsVars, pc, bridgeLocals, scriptVars, hostVars,
                   inv, renderCall, frameLoaded, handlers, currentCtx, uiPatched, wrappers,
                   footers, requested, component, heap, returned, events>>

\* Lines 232-235: the footer data reports a branch change.
BranchChange ==
    /\ \E u \in UiObjects : footers[u] > 0
    /\ Len(footerLog) < MaxFooterEvents
    /\ cachedJjTime' = 0
    /\ footerLog' = Append(footerLog, [kind |-> "branch", at |-> DateNow(now), ranJj |-> FALSE])
    /\ UNCHANGED <<editVars, renderCall, cachedJjId, cachedJjDesc, footerShown, frameLoaded, handlers,
                   currentCtx, uiPatched, wrappers, footers, requested, component, heap,
                   returned, events>>

\* Time passes between two events.
FooterTick ==
    /\ now + JjStepMs <= JjClockEnd
    /\ now' = now + JjStepMs
    /\ UNCHANGED <<params, env, hasUI, signal, fsVars, pc, bridgeLocals, scriptVars, hostVars,
                   inv, frameVars>>

\* The extension is loaded and session_start has installed the footer of
\* one UI; it has not been rendered yet.
FooterInit ==
    /\ params = [text |-> ""]
    /\ env = Empty
    /\ hasUI = TRUE
    /\ signal = Empty
    /\ NotCalledYet
    /\ NotPainted
    /\ frameLoaded = TRUE
    /\ handlers = {"session_start", "session_switch"}
    /\ currentCtx = [ui |-> "ui-a", hasUI |-> TRUE]
    /\ uiPatched = [u \in UiObjects |-> u = "ui-a"]
    /\ wrappers = [u \in UiObjects |-> IF u = "ui-a" THEN 1 ELSE 0]
    /\ footers = [u \in UiObjects |-> IF u = "ui-a" THEN 1 ELSE 0]
    /\ requested = [u \in UiObjects |-> "none"]
    /\ component = [u \in UiObjects |-> NoComponent]
    /\ heap = <<>>
    /\ returned = <<>>
    /\ events = 1
    /\ pc = "idle"
    /\ hostPc = "direct"
    /\ NoHost

FooterNext ==
    \/ FooterRender
    \/ BranchChange
    \/ FooterTick

SpecFooter == FooterInit /\ [][FooterNext]_vars

\* Editor commands of each shape: plain, with {file} once and twice, with $1,
\* with both, and one that spells out a draft path.
EditorCommands ==
    {"nvim", "code --wait {file}", "diff {file} {file}", "ed $1 --wait",
     "ed {file} $1", "ed <draft of the first directory>"}

\* The invocations that differ in the shape of the editor command.
ScriptInit ==
    /\ params \in { [text |-> "hello", timeoutSeconds |-> 5000, editorCommand |-> c] :
                      c \in EditorCommands }
    /\ env \in OptField("ZELLIJ_SESSION_NAME", {"main"})
    /\ hasUI = TRUE
    /\ signal = Empty
    /\ Fresh

SpecScript == ScriptInit /\ [][EditSteps]_vars

SpecTool == ToolInit /\ [][ToolNext]_vars

\* Entries of the conversation branch.
Message(role, content) ==
    [type |-> "message", message |-> [role |-> role, content |-> content]]
TextPart(text) == [type |-> "text", text |-> text]
UserEntry == Message("user", <<TextPart("hello")>>)
TwoLineReply == Message("assistant", <<TextPart("ok"), TextPart("ok")>>)
PaddedReply == Message("assistant", <<[type |-> "thinking", text |-> "hello"], TextPart(" ok ")>>)
BlankReply == Message("assistant", <<TextPart(" ")>>)
ToolCallReply == Message("assistant", <<[type |-> "toolCall", text |-> "hello"]>>)
LabelEntry == [type |-> "label", message |-> [role |-> "assistant", content |-> <<TextPart("hello")>>]]

Branches ==
    { <<>>,
      <<UserEntry>>,
      <<TwoLineReply, UserEntry>>,
      <<TwoLineReply, PaddedReply, BlankReply>>,
      <<PaddedReply, TwoLineReply, ToolCallReply, LabelEntry>>,
      <<BlankReply, LabelEntry>> }

\* The buffer when the key is pressed: empty, blank, or holding text.
Buffers == {"", " ", "hello"}

\* The shortcut was pressed: the handler is about to run. It passes no
\* abort signal to editText.
ShortcutInit ==
    /\ params = [text |-> ""]
    /\ env \in OptField("ZELLIJ_SESSION_NAME", {"main"})
    /\ hasUI \in BOOLEAN
    /\ signal = Empty
    /\ Unstarted
    /\ pc = "idle"
    /\ hostPc = "shortcut_ready"
    /\ editorText \in Buffers
    /\ branch \in Branches
    /\ fallback = Empty
    /\ notifications = <<>>
    /\ setTextCalls = <<>>
    /\ toolReturn = NoResult

ShortcutNext ==
    \/ EditSteps
    \/ ShortcutHandler
    \/ ShortcutDone
    \/ ShortcutRejects

SpecShortcut == ShortcutInit /\ [][ShortcutNext]_vars

\* The invocations that differ in where the editor command comes from: each
\* source is unset, set to the empty string, or set to a command of its own.
EditorInit ==
    /\ params \in { [text |-> "hello", timeoutSeconds |-> 5000] @@ ec :
                      ec \in OptField("editorCommand", {"", "ovr"}) }
    /\ env \in { z @@ pe @@ v @@ e :
                   z \in OptField("ZELLIJ_SESSION_NAME", {"main"}),
                   pe \in OptField("PI_EDIT_TEXT_EDITOR", {"", "pi-ed"}),
                   v \in OptField("VISUAL", {"", "vis"}),
                   e \in OptField("EDITOR", {"", "ed"}) }
    /\ hasUI = TRUE
    /\ signal \in OptField("aborted", {FALSE}) \ {Empty}
    /\ Fresh

SpecEditor == EditorInit /\ [][Next]_vars

(* ------------------------------------------------------------------ *)
(* editText called again while a call is still waiting                 *)
(* ------------------------------------------------------------------ *)

\* Each call of editText has its own locals (lines 505-525) and its own
\* launcher; the calls share the filesystem and the clock. The calls below
\* run in zellij with an interactive UI, their pane opens at the first try,
\* no I/O call of theirs rejects, and they keep the defaults but for a short
\* timeout.
CallParams(i) ==
    [text |-> IF i = "first" THEN "alpha" ELSE "beta", timeoutSeconds |-> 5000]

\* What the user types in the pane of call i before saving.
TypedIn(i) == IF i = "first" THEN "alpha, edited" ELSE "beta, edited"

\* How the editor of call i exits.
ExitOf(i) == IF i = "first" THEN 0 ELSE 130

\* The names mkdtemp may come up with: the prefix of line 522 and a suffix.
TmpNames == {"pi-edit-proposed-text-Aaaaaa", "pi-edit-proposed-text-Bbbbbb"}

\* Mutant: the directory is made whether or not it exists (mkdir -p).
FreeNames_NotExclusive(taken) == TmpNames

\* Line 522, mkdtemp: the directory is created exclusively, with a random
\* suffix. A suffix that was handed out once is not drawn again.
FreeNames(taken) == TmpNames \ taken

HandedOut == dirs \cup {inv[j].tmpPath : j \in Invocations}

\* Lines 523-525.
TextPathOf(i) == join(inv[i].tmpPath, "draft.md")
DonePathOf(i) == join(inv[i].tmpPath, "editor.done")
ScriptPathOf(i) == join(inv[i].tmpPath, "run-editor.sh")

soloVars == <<params, env, hasUI, signal, pc, bridgeLocals, scriptVars, hostVars, frameVars>>

\* Lines 500-520: the host calls editText; nothing is awaited before mkdtemp.
Call(i) ==
    /\ inv[i].pc = "idle"
    /\ inv' = [inv EXCEPT ![i].pc = "mkdtemp"]
    /\ UNCHANGED <<soloVars, now, fsVars>>

\* Lines 522-525.
MkdtempOf(i) ==
    /\ inv[i].pc = "mkdtemp"
    /\ \E d \in FreeNames(HandedOut) :
        /\ dirs' = dirs \cup {d}
        /\ inv' = [inv EXCEPT ![i].tmpPath = d, ![i].pc = "write_text"]
    /\ UNCHANGED <<soloVars, now, files, modes>>

\* Line 552.
WriteTextOf(i) ==
    /\ inv[i].pc = "write_text"
    /\ CanWrite(TextPathOf(i))
    /\ files' = Put(files, TextPathOf(i), CallParams(i).text)
    /\ modes' = Put(modes, TextPathOf(i), "0644")
    /\ inv' = [inv EXCEPT ![i].pc = "write_script"]
    /\ UNCHANGED <<soloVars, now, dirs>>

\* Line 553.
WriteScriptOf(i) ==
    /\ inv[i].pc = "write_script"
    /\ CanWrite(ScriptPathOf(i))
    /\ files' = Put(files, ScriptPathOf(i), "runEditorScript")
    /\ modes' = Put(modes, ScriptPathOf(i), "0644")
    /\ inv' = [inv EXCEPT ![i].pc = "chmod"]
    /\ UNCHANGED <<soloVars, now, dirs>>

\* Line 554.
ChmodOf(i) ==
    /\ inv[i].pc = "chmod"
    /\ fileExists(ScriptPathOf(i))
    /\ modes' = Put(modes, ScriptPathOf(i), "0755")
    /\ inv' = [inv EXCEPT ![i].pc = "launch1"]
    /\ UNCHANGED <<soloVars, now, dirs, files>>

\* Lines 556-572 and 613: pi.exec resolves with code 0, the pane runs the
\* launcher of this call with this call's paths, and the wait begins.
LaunchOf(i) ==
    /\ inv[i].pc = "launch1"
    /\ inv' = [inv EXCEPT ![i].scriptPc = "editor", ![i].start = now, ![i].pc = "poll"]
    /\ UNCHANGED <<soloVars, now, fsVars>>

\* Lines 614-631.
PollOf(i) ==
    /\ inv[i].pc = "poll"
    /\ LET d == PollDecision(fileExists(DonePathOf(i)), Empty, now - inv[i].start,
                             timeoutMs(CallParams(i)))
           failed(why) == [text |-> CallParams(i).text,
                           details |-> [ok |-> FALSE, reason |-> why]]
       IN inv' = [inv EXCEPT ![i] =
                    CASE d = "read" -> [@ EXCEPT !.pc = "read_text"]
                      [] d = "timeout" -> [@ EXCEPT !.result = failed("timeout"),
                                                    !.pc = "finally"]
                      [] OTHER -> [@ EXCEPT !.wake = now + PollIntervalMs, !.pc = "sleep"]]
    /\ UNCHANGED <<soloVars, now, fsVars>>

\* Line 630.
SleepOf(i) ==
    /\ inv[i].pc = "sleep"
    /\ now >= inv[i].wake
    /\ inv' = [inv EXCEPT ![i].pc = "poll"]
    /\ UNCHANGED <<soloVars, now, fsVars>>

\* Line 633.
ReadTextOf(i) ==
    /\ inv[i].pc = "read_text"
    /\ fileExists(TextPathOf(i))
    /\ inv' = [inv EXCEPT ![i].editedText = files[TextPathOf(i)], ![i].pc = "read_done"]
    /\ UNCHANGED <<soloVars, now, fsVars>>

\* Lines 634-646.
ReadDoneOf(i) ==
    /\ inv[i].pc = "read_done"
    /\ fileExists(DonePathOf(i))
    /\ inv' = [inv EXCEPT
                 ![i].result = [text |-> inv[i].editedText,
                                details |-> [ok |-> TRUE,
                                             changed |-> inv[i].editedText /= CallParams(i).text,
                                             exitCode |-> parseInt(trim(files[DonePathOf(i)]))]],
                 ![i].pc = "finally"]
    /\ UNCHANGED <<soloVars, now, fsVars>>

\* Lines 660-664.
FinallyOf(i) ==
    /\ inv[i].pc = "finally"
    /\ dirs' = RmDirs(inv[i].tmpPath)
    /\ files' = RmFiles(files, inv[i].tmpPath)
    /\ modes' = RmFiles(modes, inv[i].tmpPath)
    /\ inv' = [inv EXCEPT ![i].pc = "done"]
    /\ UNCHANGED <<soloVars, now>>

\* Lines 538-545: the editor of call i saves its $1.
EditorSaveOf(i) ==
    /\ inv[i].scriptPc = "editor"
    /\ inv[i].edits < MaxEdits
    /\ CanWrite(TextPathOf(i))
    /\ files' = Put(files, TextPathOf(i), TypedIn(i))
    /\ inv' = [inv EXCEPT ![i].edits = @ + 1]
    /\ UNCHANGED <<soloVars, now, dirs, modes>>

\* Line 547.
EditorExitOf(i) ==
    /\ inv[i].scriptPc = "editor"
    /\ inv' = [inv EXCEPT ![i].exit_code = ExitOf(i), ![i].scriptPc = "exited"]
    /\ UNCHANGED <<soloVars, now, fsVars>>

\* Line 548, the redirect > "$done_file" of the launcher of call i.
ScriptOpenDoneOf(i) ==
    /\ inv[i].scriptPc = "exited"
    /\ IF CanWrite(DonePathOf(i))
       THEN /\ files' = Put(files, DonePathOf(i), <<>>)
            /\ modes' = Put(modes, DonePathOf(i), "0644")
            /\ inv' = [inv EXCEPT ![i].scriptPc = "opened"]
       ELSE /\ inv' = [inv EXCEPT ![i].scriptPc = "finished"]
            /\ UNCHANGED <<files, modes>>
    /\ UNCHANGED <<soloVars, now, dirs>>

\* Line 548, printf "%s\n" "$exit_code" of the launcher of call i.
ScriptWriteDoneOf(i) ==
    /\ inv[i].scriptPc = "opened"
    /\ files' = IF fileExists(DonePathOf(i))
                THEN Put(files, DonePathOf(i), printf(inv[i].exit_code)) ELSE files
    /\ inv' = [inv EXCEPT ![i].scriptPc = "finished"]
    /\ UNCHANGED <<soloVars, now, dirs, modes>>

\* Time passes while some call is suspended in sleep(200).
TickOf(i) ==
    /\ inv[i].pc = "sleep"
    /\ now < inv[i].wake
    /\ now < MaxTicks * TickMs
    /\ now' = now + TickMs
    /\ UNCHANGED <<soloVars, inv, fsVars>>

ConcurrentInit ==
    /\ params = [text |-> ""]
    /\ env = [ZELLIJ_SESSION_NAME |-> "main"]
    /\ hasUI = TRUE
    /\ signal = Empty
    /\ Unstarted
    /\ pc = "idle"
    /\ hostPc = "direct"
    /\ NoHost

ConcurrentNext ==
    \E i \in Invocations :
        \/ Call(i)
        \/ MkdtempOf(i)
        \/ WriteTextOf(i)
        \/ WriteScriptOf(i)
        \/ ChmodOf(i)
        \/ LaunchOf(i)
        \/ PollOf(i)
        \/ SleepOf(i)
        \/ ReadTextOf(i)
        \/ ReadDoneOf(i)
        \/ FinallyOf(i)
        \/ EditorSaveOf(i)
        \/ EditorExitOf(i)
        \/ ScriptOpenDoneOf(i)
        \/ ScriptWriteDoneOf(i)
        \/ TickOf(i)

SpecConcurrent == ConcurrentInit /\ [][ConcurrentNext]_vars

(* ------------------------------------------------------------------ *)
(* Properties                                                          *)
(* ------------------------------------------------------------------ *)

\* What the caller asked for, read off the Params object itself.
CleanupRequested == ~Has(params, "cleanup") \/ params.cleanup
FloatingRequested == ~Has(params, "floating") \/ params.floating

IsAborted == Has(signal, "aborted") /\ signal.aborted
Reasons == {"no-interactive-ui", "zellij-launch-failed", "timeout", "aborted"}
Returned == pc = "done"
ReturnedReason(why) ==
    /\ pc = "done"
    /\ Has(result.details, "reason")
    /\ result.details.reason = why
IsFloatingLaunch(args) == args[5] = "--floating"
DirHasFiles(dir) == \E q \in DOMAIN files : q[1] = dir
LastLaunch == execResults[Len(execResults)]
\* Every launch that was requested has returned.
LaunchesOver == execResults /= <<>> /\ Len(execResults) = Len(execCalls)

\* C1: every returned outcome has a text, and a failed outcome (ok = false,
\* whatever the reason) has exactly the original input text.
C1_FailureKeepsText ==
    Returned =>
        /\ Has(result, "text")
        /\ result.text \in Texts
        /\ ~result.details.ok =>
              /\ Has(result.details, "reason")
              /\ result.details.reason \in Reasons
              /\ result.text = params.text

\* C1 witness: a failed outcome returned while the draft file holds other text.
C1_Witness ==
    /\ ReturnedReason("aborted")
    /\ fileExists(textPath)
    /\ files[textPath] /= params.text

\* C2: with no UI and no multiplexer detected, editText ends at once with
\* no-interactive-ui and the input text, having created no temp directory
\* and requested no launch and no editor.
C2_NoUiFailsImmediately ==
    (~hasUI /\ ~inZellij(env) /\ pc /= "start") =>
        /\ pc = "done"
        /\ result = [text |-> params.text,
                     details |-> [ok |-> FALSE, reason |-> "no-interactive-ui"]]
        /\ tmpPath = 0
        /\ dirs = {}
        /\ files = Empty
        /\ execCalls = <<>>
        /\ uiCalls = <<>>

\* C2 witness: the empty text, the session variable set to the empty string.
C2_Witness ==
    /\ ReturnedReason("no-interactive-ui")
    /\ params.text = ""
    /\ Has(env, "ZELLIJ_SESSION_NAME")

\* C3 (as claimed): the sentinel exists only once the editor has exited, and
\* whenever the bridge has observed it, the draft it reads is the editor's
\* final content and the sentinel's content is the editor's exit code.
C3_SentinelCarriesExitCode ==
    /\ (tmpPath /= 0 /\ fileExists(donePath)) => scriptPc \in {"opened", "finished"}
    /\ pc = "read_done" => editedText = files[textPath]
    /\ pc \in {"read_text", "read_done"} => files[donePath] = printf(exit_code)
    /\ (Returned /\ Has(result.details, "exitCode")) =>
          result.details.exitCode = {exit_code}

\* C4: with cleanup enabled, once editText has ended (returned or thrown) the
\* temp directory it created and everything in it are gone, and stay gone.
C4_CleanupRemovesTempDir ==
    (CleanupRequested /\ pc \in Terminal /\ tmpPath /= 0) =>
        /\ tmpPath \notin dirs
        /\ ~DirHasFiles(tmpPath)

\* C4 witness: a timeout was returned and the launcher script ended later.
C4_Witness ==
    /\ CleanupRequested
    /\ ReturnedReason("timeout")
    /\ tmpPath /= 0
    /\ scriptPc = "finished"

\* C5: with cleanup disabled, after every returned outcome of an invocation
\* that created a temp directory, the directory exists and holds the draft.
C5_NoCleanupKeepsDraft ==
    (~CleanupRequested /\ Returned /\ tmpPath /= 0) =>
        /\ tmpPath \in dirs
        /\ fileExists(textPath)
        /\ files[textPath] \in Texts

\* C5 witness: an aborted wait with cleanup disabled.
C5_Witness ==
    /\ ~CleanupRequested
    /\ ReturnedReason("aborted")
    /\ tmpPath \in dirs

\* C6 (as claimed): when cleanup is disabled and the temp directory is
\* retained, every outcome reports the draft path as tempFile.
C6_TempFileAlwaysReported ==
    (~CleanupRequested /\ Returned /\ tmpPath \in dirs) =>
        /\ Has(result.details, "tempFile")
        /\ result.details.tempFile = textPath

\* C7: inside the multiplexer the first launch is floating exactly when
\* floating was requested; a second launch is made if and only if floating was
\* requested and the first returned nonzero, and it is non-floating; there is
\* never a third, and outside the multiplexer there is none.
C7_AtMostOneRetry ==
    /\ Len(execCalls) <= 2
    /\ Len(execResults) <= Len(execCalls)
    /\ ~inZellij(env) => execCalls = <<>>
    /\ (inZellij(env) /\ Returned) => Len(execCalls) >= 1
    /\ Len(execCalls) >= 1 => (IsFloatingLaunch(execCalls[1]) <=> FloatingRequested)
    /\ Len(execCalls) = 2 <=>
          (FloatingRequested /\ execResults /= <<>> /\ execResults[1].code /= 0)
    /\ Len(execCalls) = 2 => ~IsFloatingLaunch(execCalls[2])

\* C7 witness: the floating launch failed and the non-floating one succeeded.
C7_Witness ==
    /\ Returned
    /\ Len(execResults) = 2
    /\ execResults[1].code /= 0
    /\ execResults[2].code = 0

\* C8: once the last launch has returned nonzero, editText never waits for the
\* sentinel or reads the draft; with a UI it asks the in-process editor and
\* returns its result as ui-editor, without a UI it returns
\* zellij-launch-failed with the code and stderr of that last launch.
C8_FailedLaunchFallsBack ==
    (LaunchesOver /\ LastLaunch.code /= 0) =>
        /\ pc \in {"ui_fallback", "finally", "done", "thrown"}
        /\ draftReads = 0
        /\ IF hasUI
           THEN /\ uiCalls = <<params.text>>
                /\ Returned =>
                     /\ result.details.ok
                     /\ result.details.mode = "ui-editor"
                     /\ result.text \in Texts
                     /\ result.details.changed <=> result.text /= params.text
                     /\ result.details.cancelled => result.text = params.text
           ELSE /\ uiCalls = <<>>
                /\ pc /= "ui_fallback"
                /\ Returned =>
                     result = [text |-> params.text,
                               details |-> [ok |-> FALSE,
                                            reason |-> "zellij-launch-failed",
                                            code |-> LastLaunch.code,
                                            stderr |-> LastLaunch.stderr]]

\* C8 witness: two launches failed with different codes and there is no UI.
C8_Witness ==
    /\ ReturnedReason("zellij-launch-failed")
    /\ ~hasUI
    /\ Len(execResults) = 2
    /\ execResults[1].code /= execResults[2].code

\* C9: a polling iteration that finds no sentinel ends editText with reason
\* aborted when the signal is aborted and with reason timeout when (it is not
\* and) the timeout has elapsed, with the original text in both cases; the
\* draft is read only after the sentinel has been observed, so never on
\* these paths.
C9_WaitFailureKeepsOriginal ==
    /\ [](draftReads > 0 => scriptPc \in {"opened", "finished"})
    /\ []((ReturnedReason("aborted") \/ ReturnedReason("timeout")) =>
            (result.text = params.text /\ draftReads = 0))
    /\ [][(pc = "poll" /\ pc' /= "poll" /\ ~fileExists(donePath)) =>
            /\ draftReads' = 0
            /\ IsAborted =>
                 result' = [text |-> params.text,
                            details |-> [ok |-> FALSE, reason |-> "aborted",
                                         mode |-> mode]]
            /\ (~IsAborted /\ now - start > timeoutMs(params)) =>
                 result' = [text |-> params.text,
                            details |-> [ok |-> FALSE, reason |-> "timeout",
                                         mode |-> mode]]]_vars

\* C9 witness: a timeout returned while the draft file holds edited text.
C9_Witness ==
    /\ ReturnedReason("timeout")
    /\ fileExists(textPath)
    /\ files[textPath] /= params.text
    /\ draftReads = 0

\* C10: a polling iteration that finds no sentinel while the signal is aborted
\* and the timeout has elapsed reports aborted, not timeout.
C10_AbortBeatsTimeout ==
    [][(/\ pc = "poll"
        /\ pc' /= "poll"
        /\ ~fileExists(donePath)
        /\ IsAborted
        /\ now - start > timeoutMs(params)) =>
            (Has(result', "details") /\ result'.details.reason = "aborted")]_vars

\* C10 witness: aborted was returned from an iteration past the timeout.
C10_Witness ==
    /\ ReturnedReason("aborted")
    /\ now - start > timeoutMs(params)
    /\ scriptPc \in {"editor", "exited"}

\* C11: once the sentinel has been observed and read, the outcome editText
\* returns is ok = true with the draft file's content as text, whatever the
\* editor's exit code; the exit code (null when the sentinel does not parse) is
\* only recorded and no reason is set.
C11_SentinelMeansSuccess ==
    (Returned /\ draftReads > 0) =>
        /\ result.details.ok
        /\ ~Has(result.details, "reason")
        /\ result.text = editedText
        /\ fileExists(textPath) => result.text = files[textPath]
        /\ Has(result.details, "exitCode")
        /\ result.details.exitCode \in {{}, {exit_code}}
        /\ scriptPc = "finished" =>
              (fileExists(donePath) => parseInt(trim(files[donePath])) = {exit_code})

\* C11 witness: the editor exited nonzero after changing the draft.
C11_Witness ==
    /\ Returned
    /\ draftReads > 0
    /\ result.details.ok
    /\ result.details.exitCode = {130}
    /\ result.text /= params.text

\* C12: in every successful outcome changed is true exactly when the text
\* differs from the input; an external editor that exits without saving
\* yields the input text and changed = false.
C12_ChangedIffTextDiffers ==
    (Returned /\ result.details.ok) =>
        /\ Has(result.details, "changed")
        /\ result.details.changed <=> result.text /= params.text
        /\ (draftReads > 0 /\ edits = 0) =>
              (result.text = params.text /\ ~result.details.changed)

\* C12 witness: the editor saved the text it was given; nothing changed.
C12_Witness ==
    /\ Returned
    /\ draftReads > 0
    /\ edits > 0
    /\ result.text = params.text
    /\ ~result.details.changed

\* C13: the mode of an outcome names the launch that was used: zellij-floating
\* only when the last launch was floating and returned 0, zellij-pane only when
\* the last launch was non-floating and returned 0, ui-editor only when the
\* in-process editor produced the result.
C13_ModeNamesLaunchUsed ==
    (Returned /\ Has(result.details, "mode")) =>
        LET m == result.details.mode
        IN /\ m \in {"zellij-floating", "zellij-pane", "ui-editor"}
           /\ m = "ui-editor" <=> (uiCalls /= <<>>)
           /\ m = "ui-editor" => draftReads = 0
           /\ m /= "ui-editor" =>
                /\ LaunchesOver
                /\ LastLaunch.code = 0
                /\ m = "zellij-floating" <=> IsFloatingLaunch(execCalls[Len(execCalls)])
           /\ (m = "zellij-pane" /\ FloatingRequested) =>
                (Len(execResults) = 2 /\ execResults[1].code /= 0)

\* C13 witness: empty text, the floating launch fails, the fixed one succeeds,
\* the editor exits 0 without saving.
C13_Witness ==
    /\ Returned
    /\ params.text = ""
    /\ Len(execResults) = 2
    /\ execResults[1].code /= 0
    /\ edits = 0
    /\ Has(result.details, "exitCode")
    /\ result.details.exitCode = {0}
    /\ result.text = ""
    /\ ~result.details.changed
    /\ result.details.mode = "zellij-pane"

\* C14: an outcome is a failure exactly when it carries a reason, the reason is
\* one of the four, and the in-process editor declining is a successful
\* outcome with cancelled = true.
C14_ClosedFailureTaxonomy ==
    Returned =>
        /\ ~result.details.ok <=> Has(result.details, "reason")
        /\ Has(result.details, "reason") => result.details.reason \in Reasons
        /\ Has(result.details, "cancelled") =>
              (result.details.ok /\ result.details.mode = "ui-editor")

\* C14 witness: the in-process editor declined.
C14_Witness ==
    /\ Returned
    /\ result.details.ok
    /\ Has(result.details, "cancelled")
    /\ result.details.cancelled

\* C15: with no multiplexer detected and a UI, editText requests no launch and
\* hands the input text to the in-process editor; a returned string S gives
\* ok, ui-editor, text = S, cancelled = false, and no value gives ok,
\* ui-editor, the input text, changed = false, cancelled = true.
C15_DirectUiEditor ==
    (hasUI /\ ~(Has(env, "ZELLIJ_SESSION_NAME") /\ env.ZELLIJ_SESSION_NAME /= "")) =>
        /\ execCalls = <<>>
        /\ scriptPc = "idle"
        /\ Returned =>
             /\ uiCalls = <<params.text>>
             /\ IF Has(uiReturned, "value")
                THEN result = [text |-> uiReturned.value,
                               details |-> [ok |-> TRUE, mode |-> "ui-editor",
                                            changed |-> uiReturned.value /= params.text,
                                            cancelled |-> FALSE]]
                ELSE result = [text |-> params.text,
                               details |-> [ok |-> TRUE, mode |-> "ui-editor",
                                            changed |-> FALSE, cancelled |-> TRUE]]

\* C15 witness: "hello" edited to "hello world" in the in-process editor.
C15_Witness ==
    /\ Returned
    /\ ~Has(env, "ZELLIJ_SESSION_NAME")
    /\ params.text = "hello"
    /\ result.text = "hello world"
    /\ result.details.changed
    /\ result.details.mode = "ui-editor"

\* A timeout of at most one second was requested: the effective timeout is
\* the floor.
AtFloor == Has(params, "timeoutSeconds") /\ params.timeoutSeconds <= SecondUnits

\* C16 (as claimed): with the timeout at its floor, timeout is reported no
\* later than the floor plus one poll interval after the invocation started
\* (the clock reads 0 when editText is called).
C16_TimeoutWithinFloorPlusInterval ==
    (AtFloor /\ ReturnedReason("timeout")) => now <= MinTimeoutMs + PollIntervalMs

\* C16 (amended): with the timeout at its floor, timeout is reported by the
\* first polling iteration that finds no sentinel and no abort more than
\* 1000 ms after the wait began, and by none before; when no timer fired late
\* that is exactly 1200 ms after the wait began.
C16_TimeoutAtFirstLatePoll ==
    /\ []((AtFloor /\ ReturnedReason("timeout")) =>
            /\ now - start > 1000
            /\ now - start < LongWaitMs => now - start = 1200)
    /\ [][(/\ AtFloor
           /\ pc = "poll"
           /\ pc' /= "poll"
           /\ ~fileExists(donePath)
           /\ ~IsAborted
           /\ now - start > 1000) =>
              (Has(result', "details") /\ result'.details.reason = "timeout")]_vars

\* C16 witness: the timeout was reported 1200 ms after the wait began.
C16_Witness ==
    /\ AtFloor
    /\ ReturnedReason("timeout")
    /\ now - start = 1200

\* The wait was reached: the last launch requested has returned 0.
WaitReached == LaunchesOver /\ LastLaunch.code = 0

\* C17: while the sentinel is absent, the signal is not aborted and the timeout
\* has not elapsed, a polling iteration sleeps and polls again; under fair
\* scheduling every invocation that reaches the wait ends, and it ends in
\* exactly one of three ways: the sentinel was seen (the draft is read, the
\* outcome is a success), aborted, or timeout.
C17_WaitEnds ==
    /\ (pc = "poll") ~> (pc \in Terminal)
    /\ [][(/\ pc = "poll"
           /\ ~fileExists(donePath)
           /\ ~IsAborted
           /\ now - start <= timeoutMs(params)) => pc' \in {"poll", "sleep"}]_vars
    /\ []((WaitReached /\ pc \in Terminal) =>
            IF scriptPc \in {"opened", "finished"} /\ (pc = "thrown" \/ draftReads > 0)
            THEN pc = "done" => (result.details.ok /\ draftReads > 0)
            ELSE /\ pc = "done"
                 /\ draftReads = 0
                 /\ ~result.details.ok
                 /\ result.details.reason \in {"aborted", "timeout"})

\* C17 witness: the wait ended by the timeout after six sleeps.
C17_Witness ==
    /\ WaitReached
    /\ ReturnedReason("timeout")
    /\ now - start = MaxTicks * TickMs
    /\ ~IsAborted

\* The time waited so far, in the unit of timeoutSeconds (1/SecondUnits s).
ElapsedUnits == (now - start) * (SecondUnits \div 1000)

\* C18: the effective timeout is 1 800 000 ms when timeoutSeconds is omitted,
\* and otherwise the whole milliseconds of the request (floor) but never less
\* than 1000 ms, whatever was requested (zero, negative, sub-second); timeout
\* is reported exactly by a poll that runs later than that with no sentinel
\* and no abort.
C18_EffectiveTimeout ==
    /\ [](/\ timeoutMs(params) >= 1000
          /\ ~Has(params, "timeoutSeconds") => timeoutMs(params) = 1800 * 1000
          /\ (Has(params, "timeoutSeconds") /\ params.timeoutSeconds < SecondUnits)
                => timeoutMs(params) = 1000
          /\ (Has(params, "timeoutSeconds") /\ params.timeoutSeconds >= SecondUnits)
                => /\ timeoutMs(params) * (SecondUnits \div 1000) <= params.timeoutSeconds
                   /\ params.timeoutSeconds < (timeoutMs(params) + 1) * (SecondUnits \div 1000))
    /\ [](ReturnedReason("timeout") =>
            /\ now - start > 1000
            /\ IF Has(params, "timeoutSeconds")
               THEN params.timeoutSeconds < ElapsedUnits
               ELSE now - start > 1800 * 1000)
    /\ [][(/\ pc = "poll"
           /\ pc' /= "poll"
           /\ ~fileExists(donePath)
           /\ ~IsAborted
           /\ now - start > 1000
           /\ IF Has(params, "timeoutSeconds")
              THEN params.timeoutSeconds < ElapsedUnits
              ELSE now - start > 1800 * 1000) =>
              (Has(result', "details") /\ result'.details.reason = "timeout")]_vars

\* C18 witness: a negative timeout was requested and the wait still lasted
\* more than a second before timeout was reported.
C18_Witness ==
    /\ Has(params, "timeoutSeconds")
    /\ params.timeoutSeconds < 0
    /\ ReturnedReason("timeout")
    /\ now - start > 1000

\* The sources of the editor command in priority order, each the set of its
\* values: empty when the source is unset.
EditorSources ==
    << IF Has(params, "editorCommand") THEN {params.editorCommand} ELSE {},
       IF Has(env, "PI_EDIT_TEXT_EDITOR") THEN {env.PI_EDIT_TEXT_EDITOR} ELSE {},
       IF Has(env, "VISUAL") THEN {env.VISUAL} ELSE {},
       IF Has(env, "EDITOR") THEN {env.EDITOR} ELSE {} >>

\* The value of the first source outside unavailable, nvim when there is none.
FirstAvailable(unavailable) ==
    LET avail == {i \in DOMAIN EditorSources : EditorSources[i] \notin unavailable}
    IN IF avail = {} THEN "nvim"
       ELSE CHOOSE c \in EditorSources[CHOOSE i \in avail : \A j \in avail : i <= j] : TRUE

\* C19 (as claimed): the command the launcher runs is the first available of
\* override, PI_EDIT_TEXT_EDITOR, VISUAL, EDITOR, else nvim; a source counts
\* as available either when it is set or when it is set and not empty.
C19_FirstAvailableSource ==
    scriptPc /= "idle" =>
        \/ editor_cmd = FirstAvailable({{}})
        \/ editor_cmd = FirstAvailable({{}, {""}})

\* editText has chosen its way of editing: it asked zellij for a pane, asked
\* the in-process editor, or gave up for lack of both.
WayChosen ==
    \/ execCalls /= <<>>
    \/ uiCalls /= <<>>
    \/ ReturnedReason("no-interactive-ui")

\* C20 (as claimed): the multiplexer is treated as active (a pane is asked
\* of zellij) exactly when ZELLIJ_SESSION_NAME is present, whatever its value.
C20_PresenceMeansActive ==
    WayChosen => (execCalls /= <<>> <=> Has(env, "ZELLIJ_SESSION_NAME"))

\* C20 (amended): the multiplexer is treated as active exactly when
\* ZELLIJ_SESSION_NAME is present and not empty; with the variable unset or
\* empty no pane is asked of zellij.
C20_NonEmptyMeansActive ==
    WayChosen =>
        (execCalls /= <<>> <=>
            (Has(env, "ZELLIJ_SESSION_NAME") /\ env.ZELLIJ_SESSION_NAME /= ""))

\* C20 witness: with the variable present but empty the text was edited in
\* the in-process editor and zellij was never called.
C20_Witness ==
    /\ Has(env, "ZELLIJ_SESSION_NAME")
    /\ env.ZELLIJ_SESSION_NAME = ""
    /\ hasUI
    /\ Returned
    /\ result.details.ok
    /\ result.details.mode = "ui-editor"
    /\ execCalls = <<>>

\* The draft holds the input text and the launcher script is in place and
\* executable.
Prefilled ==
    /\ fileExists(textPath)
    /\ files[textPath] = params.text
    /\ fileExists(scriptPath)
    /\ scriptPath \in DOMAIN modes
    /\ modes[scriptPath] = "0755"

\* C22: whenever a launch is attempted (pi.exec is called) the draft already
\* holds the original input text and the launcher script is written and
\* executable, and so does the draft at the moment the launcher starts the
\* editor.
C22_PrefilledBeforeLaunch ==
    /\ [][execCalls' /= execCalls => Prefilled']_vars
    /\ [][(scriptPc = "idle" /\ scriptPc' /= "idle") => Prefilled']_vars
    /\ [](execCalls /= <<>> => pc \notin {"start", "mkdtemp", "write_text", "write_script", "chmod"})

\* C22 witness: the editor runs on a non-empty draft that holds the input.
C22_Witness ==
    /\ scriptPc = "editor"
    /\ edits = 0
    /\ params.text = "hello"
    /\ Prefilled
    /\ Len(execCalls) = 2

\* The wait ended without the sentinel: timeout or abort was returned.
GaveUpWaiting == ReturnedReason("timeout") \/ ReturnedReason("aborted")

\* C30: no step of the bridge moves a launcher script that has started (the
\* editor is never signalled or stopped); a timeout or abort outcome is made
\* of the call's inputs alone, whatever the editor has done; and once returned
\* the outcome never changes, whatever the editor does afterwards.
C30_EditorLeftRunning ==
    /\ [][(scriptPc /= "idle" /\ pc' /= pc) => UNCHANGED scriptVars]_vars
    /\ [](GaveUpWaiting =>
            result = [text |-> params.text,
                      details |-> [ok |-> FALSE,
                                   reason |-> result.details.reason,
                                   mode |-> mode]])
    /\ [][(pc \in {"done", "thrown"}) => (pc' = pc /\ result' = result)]_vars

\* C30 witness: timeout was returned while no sentinel existed; the editor
\* went on, saved the draft and the launcher wrote the sentinel afterwards.
C30_Witness ==
    /\ ReturnedReason("timeout")
    /\ scriptPc = "finished"
    /\ fileExists(donePath)
    /\ fileExists(textPath)
    /\ files[textPath] = "hello world"
    /\ result.text = "hello"

\* The messages execute answers a failed edit with.
ToolErrorTexts ==
    [x \in {"no-interactive-ui", "timeout", "aborted"} |->
        CASE x = "no-interactive-ui" ->
                <<"Error: interactive text editing requires zellij or a UI session.">>
          [] x = "timeout" -> <<"Timed out waiting for editor to close.">>
          [] x = "aborted" -> <<"Editing cancelled.">>]

\* C26: execute resolves only once editText has returned; for a successful
\* outcome its content is exactly the outcome's text, for a failed one it is
\* the error message of the reason and neither the original nor the draft
\* text; the details are the outcome's details in both cases.
C26_ToolReturnsOutcome ==
    /\ [][toolReturn' /= toolReturn => (pc = "done" /\ toolReturn = NoResult)]_vars
    /\ [](toolReturn /= NoResult =>
            /\ pc = "done"
            /\ toolReturn.details = result.details
            /\ result.details.ok => toolReturn.content = <<result.text>>
            /\ ~result.details.ok =>
                 /\ toolReturn.content /= <<params.text>>
                 /\ fileExists(textPath) => toolReturn.content /= <<files[textPath]>>
                 /\ IF result.details.reason = "zellij-launch-failed"
                    THEN /\ toolReturn.content[1] = "Error: failed to open editor via zellij (exit "
                         /\ toolReturn.content[2] = ToString(LastLaunch.code)
                         /\ toolReturn.content[4] = LastLaunch.stderr
                    ELSE toolReturn.content = ToolErrorTexts[result.details.reason])
    /\ [](hostPc = "tool_returned" <=> toolReturn /= NoResult)

\* C26 witness: the edit timed out with a changed draft left behind and the
\* tool answered with the timeout message.
C26_Witness ==
    /\ toolReturn /= NoResult
    /\ toolReturn.content = <<"Timed out waiting for editor to close.">>
    /\ fileExists(textPath)
    /\ files[textPath] = "hello world"

\* The assistant messages of Branches that hold text, with the text the
\* handler is to take from each: the text parts joined by newlines, trimmed.
ReplyText == [e \in {TwoLineReply, PaddedReply} |->
                IF e = TwoLineReply THEN "ok\nok" ELSE "ok"]

\* The places of the branch that hold an assistant message with text.
Replies == {i \in DOMAIN branch : branch[i] \in DOMAIN ReplyText}

\* The handler has called editText and has not yet touched the buffer.
ShortcutEditing == hostPc = "shortcut_waiting"

\* C23: the text the shortcut hands to editText is the buffer when the buffer
\* is not blank; for a blank buffer it is the text of the latest assistant
\* message that has text, and the buffer as it is when there is none. With no
\* UI the handler returns without calling editText or touching the UI.
C23_ShortcutPicksText ==
    /\ ShortcutEditing =>
         IF editorText \notin {"", " "} THEN params.text = editorText
         ELSE IF Replies /= {}
         THEN params.text = ReplyText[branch[CHOOSE i \in Replies : \A j \in Replies : j <= i]]
         ELSE params.text = editorText
    /\ (hostPc /= "shortcut_ready" /\ ~hasUI) =>
         /\ hostPc = "shortcut_returned"
         /\ pc = "idle"
         /\ notifications = <<>>
         /\ setTextCalls = <<>>
         /\ uiCalls = <<>>
         /\ execCalls = <<>>
         /\ dirs = {}
    /\ Range(uiCalls) \subseteq {params.text}

\* C23 witness: with a blank buffer the blank latest reply was passed over
\* and the reply before it is being edited, trimmed.
C23_Witness ==
    /\ ShortcutEditing
    /\ editorText = " "
    /\ branch = <<TwoLineReply, PaddedReply, BlankReply>>
    /\ params.text = "ok"
    /\ scriptPc = "editor"

\* C24: when editText returns to the handler, a successful outcome's text is
\* written to the buffer by one setEditorText call, and a failed outcome
\* leaves the buffer as it was with setEditorText never called; no other step
\* changes the buffer.
C24_BufferFollowsOutcome ==
    /\ [][(hostPc = "shortcut_waiting" /\ hostPc' = "shortcut_returned") =>
            /\ pc = "done"
            /\ IF result.details.ok
               THEN /\ editorText' = result.text
                    /\ setTextCalls' = <<result.text>>
               ELSE /\ editorText' = editorText
                    /\ setTextCalls' = <<>>]_vars
    /\ [][hostPc' = hostPc => UNCHANGED <<editorText, setTextCalls>>]_vars
    /\ [](hostPc = "shortcut_rejected" => setTextCalls = <<>>)

\* C24 witness: the edit of the latest reply timed out and the blank buffer
\* is still blank.
C24_Witness ==
    /\ hostPc = "shortcut_returned"
    /\ ReturnedReason("timeout")
    /\ params.text = "ok"
    /\ editorText = " "
    /\ setTextCalls = <<>>

\* C25: a shortcut run whose editText call returned has notified exactly
\* once: "updated" for a changed text, "loaded last assistant message" for an
\* unchanged text taken from the conversation, "no text changes" for an
\* unchanged buffer text, "timed out" and "launch failed" for those failures;
\* before that nothing is notified.
C25_OneNotification ==
    /\ Len(notifications) <= 1
    /\ (hostPc = "shortcut_returned" /\ pc = "done") <=> Len(notifications) = 1
    /\ Len(notifications) = 1 =>
         notifications[1] =
            IF result.details.ok
            THEN IF result.details.changed
                 THEN <<"Updated input from external editor", "info">>
                 ELSE IF fallback /= Empty
                 THEN <<"Loaded last assistant message in external editor", "info">>
                 ELSE <<"Editor closed (no text changes)", "info">>
            ELSE IF result.details.reason = "timeout"
            THEN <<"External editor timed out", "warning">>
            ELSE IF result.details.reason = "zellij-launch-failed"
            THEN <<"Failed to launch zellij editor pane", "warning">>
            ELSE <<"Could not open editor", "warning">>

\* C25 witness: the latest reply was loaded into the editor and closed
\* unchanged.
C25_Witness ==
    /\ hostPc = "shortcut_returned"
    /\ notifications = << <<"Loaded last assistant message in external editor", "info">> >>
    /\ result.details.ok
    /\ ~result.details.changed
    /\ editorText = "ok\nok"

\* The argument list the claim gives the editor: every {file} replaced by the
\* draft path; else every $1 standing for the draft path, passed as the
\* positional argument; else the draft path appended.
ClaimedArgv(cmd, file) ==
    IF "{file}" \in Range(Words(cmd))
    THEN [i \in DOMAIN Words(cmd) |->
            IF Words(cmd)[i] = "{file}" THEN PathText(file) ELSE Words(cmd)[i]]
    ELSE IF "$1" \in Range(Words(cmd))
    THEN [i \in DOMAIN Words(cmd) |->
            IF Words(cmd)[i] = "$1" THEN PathText(file) ELSE Words(cmd)[i]]
    ELSE Words(cmd) \o <<PathText(file)>>

\* C27 (as claimed): the launcher starts the editor with {file} replaced if
\* the command has it, else with the draft path as $1 if the command has $1,
\* else with the draft path appended. A command with both {file} and $1 is
\* left out: the claim does not say what becomes of its $1.
C27_StyleByPrecedence ==
    (scriptPc /= "idle" /\ editor_cmd /= "ed {file} $1") =>
        EditorArgv(editor_cmd, scriptArgs[1]) = ClaimedArgv(editor_cmd, scriptArgs[1])

\* C28: with PI_AMP_FRAME "0" when the extension is loaded no handler is
\* registered, and whatever session events follow, no UI object's
\* setEditorComponent is replaced, no footer is set, and every editor renders
\* as its factory made it.
C28_KillSwitch ==
    (Has(env, "PI_AMP_FRAME") /\ env.PI_AMP_FRAME = "0") =>
        /\ handlers = {}
        /\ currentCtx = Empty
        /\ \A u \in UiObjects :
            /\ ~uiPatched[u]
            /\ wrappers[u] = 0
            /\ footers[u] = 0
            /\ component[u].frames = 0
        /\ \A i \in DOMAIN heap : heap[i].render = <<heap[i].factory>>

\* C28 witness: with the switch set, session events came with a UI and an
\* editor was created.
C28_Witness ==
    /\ Has(env, "PI_AMP_FRAME")
    /\ env.PI_AMP_FRAME = "0"
    /\ frameLoaded
    /\ events >= 2
    /\ heap /= <<>>

\* C29: the object an installed factory returns is the object the
\* application's factory made, changed in its render alone; and undefined
\* passed to setEditorComponent reaches the original as undefined, a factory
\* as that factory inside the wrapper.
C29_RenderOnly ==
    /\ Len(returned) = Len(heap)
    /\ \A i \in DOMAIN returned :
        LET editor == heap[returned[i]]
        IN /\ editor.origin = "factory"
           /\ [editor EXCEPT !.render = <<editor.factory>>]
                = [origin |-> "factory", factory |-> editor.factory,
                   render |-> <<editor.factory>>, handleInput |-> editor.factory,
                   borderColor |-> IF editor.factory = "default" THEN "function" ELSE "none"]
    /\ \A u \in UiObjects :
        /\ requested[u] = "none" <=> component[u].kind = "none"
        /\ requested[u] = "undefined" <=>
              component[u] = [kind |-> "undefined", factory |-> "none", frames |-> 0]
        /\ requested[u] \in Factories =>
              (component[u].kind = "factory" /\ component[u].factory = requested[u])

\* C29 witness: a framed editor exists, and undefined went through a
\* replaced setEditorComponent.
C29_Witness ==
    /\ \E i \in DOMAIN heap : heap[i].render = <<"amp-frame", "mode-editor">>
    /\ \E u \in UiObjects : wrappers[u] = 1 /\ component[u].kind = "undefined"

\* The calls of editText that are inside their try block, with the draft
\* written: from line 553 to the return of line 639.
InTry == {"write_script", "chmod", "launch1", "poll", "sleep", "read_text", "read_done"}

\* The wait of call i was ended by a sentinel.
SentinelSeen(i) ==
    \/ inv[i].pc \in {"read_text", "read_done"}
    \/ Has(inv[i].result, "details") /\ inv[i].result.details.ok

\* What the pane of call i left in its draft.
OwnDraft(i) == IF inv[i].edits > 0 THEN TypedIn(i) ELSE CallParams(i).text

C21_Apart ==
    \A i \in Invocations :
        /\ \A j \in Invocations \ {i} :
            inv[i].tmpPath /= "" /\ inv[j].tmpPath /= "" => inv[i].tmpPath /= inv[j].tmpPath
        /\ SentinelSeen(i) => inv[i].scriptPc \in {"opened", "finished"}
        /\ (Has(inv[i].result, "details") /\ inv[i].result.details.ok)
               => /\ inv[i].result.text = OwnDraft(i)
                  /\ inv[i].result.details.exitCode \subseteq {ExitOf(i)}
        /\ inv[i].pc \in InTry
               => inv[i].tmpPath \in dirs /\ <<inv[i].tmpPath, "draft.md">> \in DOMAIN files

C21_OwnCleanup ==
    \A q \in DOMAIN files \ DOMAIN files' :
        \E i \in Invocations :
            /\ inv[i].pc = "finally"
            /\ inv'[i].pc /= "finally"
            /\ q[1] = inv[i].tmpPath

C31_SentinelFirst ==
    /\ [][(pc = "poll" /\ pc' /= pc /\ <<tmpPath, "editor.done">> \in DOMAIN files)
              => (pc' = "read_text" /\ result' = NoResult)]_vars
    /\ [][(pc = "read_text" /\ pc' = "read_done")
              => editedText' = files[<<tmpPath, "draft">>]]_vars
    /\ []((draftReads > 0 /\ Has(result, "details"))
              => (result.details.ok /\ result.text = editedText))

\* C31 witness: the editor's text was returned as a success although the
\* signal is aborted and more than the timeout had passed at the last poll.
C31_Witness ==
    /\ pc = "done"
    /\ Has(result, "details")
    /\ result.details.ok
    /\ result.text = "hello world"
    /\ Has(signal, "aborted") /\ signal.aborted
    /\ now - start > 1000
    /\ Has(params, "timeoutSeconds")

\* The notifications the handler has for a failure other than the timeout.
OtherFailureNotes ==
    { <<"Failed to launch zellij editor pane", "warning">>,
      <<"Could not open editor", "warning">> }

\* C32: in a run of the shortcut, editText is called with a UI and without a
\* signal; a launch that failed for good is followed by the in-process editor,
\* whose outcome is a success; the only failed outcome editText returns is
\* the timeout, and the handler never notifies of another failure.
C32_OnlyTimeoutFails ==
    /\ [](pc /= "idle" => (hasUI /\ signal = Empty))
    /\ [][(/\ Len(execResults') > Len(execResults)
           /\ execResults'[Len(execResults')].code /= 0
           /\ pc' \notin {"launch1", "launch2"})
              => (pc' = "ui_fallback" /\ result' = NoResult)]_vars
    /\ [][(pc = "ui_fallback" /\ pc' /= pc /\ pc' /= "thrown" /\ ~Has(result', "thrown"))
              => result'.details.ok]_vars
    /\ []((Has(result, "details") /\ ~result.details.ok)
              => result.details.reason = "timeout")
    /\ [](\A k \in 1..Len(notifications) : notifications[k] \notin OtherFailureNotes)

\* C32 witness: both launches failed, the in-process editor was cancelled,
\* and the handler took the outcome for a success.
C32_Witness ==
    /\ hostPc = "shortcut_returned"
    /\ Len(execResults) = 2
    /\ execResults[2].code /= 0
    /\ uiReturned = Empty
    /\ Len(uiCalls) = 1
    /\ result.details.ok
    /\ result.details.cancelled
    /\ Len(notifications) = 1

\* C33: whatever session events have come, a UI object's setEditorComponent
\* was replaced once if an event came with that UI object and never
\* otherwise (setFooter counts those events), a factory passed through it is
\* inside one wrapper, and every editor's render is the factory's own render
\* under at most one framing render.
C33_WrappedOnce ==
    /\ \A u \in UiObjects :
        /\ wrappers[u] = IF footers[u] > 0 THEN 1 ELSE 0
        /\ uiPatched[u] <=> footers[u] > 0
        /\ component[u].kind = "factory" => component[u].frames <= 1
    /\ \A i \in DOMAIN heap :
        heap[i].render \in { <<heap[i].factory>>, <<"amp-frame", heap[i].factory>> }

\* C33 witness: three session events came with the same UI object, a factory
\* was then installed through it and the editor it made has one frame.
C33_Witness ==
    \E u \in UiObjects :
        /\ footers[u] = MaxEvents
        /\ component[u] = [kind |-> "factory", factory |-> "mode-editor", frames |-> 1]
        /\ heap /= <<>>
        /\ \A i \in DOMAIN heap : heap[i].render = <<"amp-frame", "mode-editor">>

\* A render has been answered.
Rendered == Has(renderCall, "out")

\* What shows of a string: its elements but for the colour codes.
Shown(line) == SelectSeq(line, LAMBDA t : t \notin {"ESC[2m", "ESC[39m"})

\* A border line: something shows, and two fifths of it or more are dashes.
BorderLike(line) ==
    /\ Shown(line) /= <<>>
    /\ 10 * Len(SelectSeq(Shown(line), LAMBDA t : t = "dash")) >= 4 * Len(Shown(line))

\* The editor's own lines at the width asked for and at two columns less.
OuterLines == originalRender(renderCall.shape, renderCall.width)
InnerLines == originalRender(renderCall.shape, renderCall.width - 2)

\* No frame can be put around the lines.
NoFrame(lines) ==
    \/ Len(lines) < 2
    \/ ~BorderLike(lines[1])
    \/ \A i \in 2..Len(lines) : ~BorderLike(lines[i])

\* C34: the decorated render answers with the editor's own render at the
\* width asked for when that width is below 6, when transformFrame returns
\* null and when the border colour function throws; otherwise it answers
\* with as many lines as the editor renders at width - 2, the first of them
\* that render's first line between the top corners. transformFrame returns
\* null exactly for fewer than 2 lines, a first line that is no border line,
\* or no border line after the first.
C34_FrameOrFallback ==
    Rendered =>
        LET framed == transformFrame(InnerLines, renderCall.width - 2, "plain", Empty)
        IN /\ (framed = Empty) <=> NoFrame(InnerLines)
           /\ IF \/ renderCall.width < 6
                 \/ NoFrame(InnerLines)
                 \/ renderCall.borderColor = "throws"
              THEN renderCall.out = OuterLines
              ELSE /\ Len(renderCall.out) = Len(InnerLines)
                   /\ Shown(renderCall.out[1])
                        = <<"top-left">> \o Shown(InnerLines[1]) \o <<"top-right">>

\* C34 witness: a bordered editor at width 8 whose border colour function
\* throws was rendered as the editor renders itself at width 8.
C34_Witness ==
    /\ Rendered
    /\ renderCall.width = 8
    /\ renderCall.shape = <<"border", "text", "border">>
    /\ renderCall.borderColor = "throws"
    /\ renderCall.out = <<[i \in 1..8 |-> "dash"],
                          <<"ESC[2m", "x", " ", "x", "ESC[39m">>,
                          [i \in 1..8 |-> "dash"]>>

\* The render was answered with a frame.
Framed ==
    /\ Rendered
    /\ renderCall.width >= 6
    /\ ~NoFrame(InnerLines)
    /\ renderCall.borderColor /= "throws"

\* The position (from 1) of the last border line.
LastBorder(lines) ==
    CHOOSE b \in 2..Len(lines) :
        BorderLike(lines[b]) /\ \A i \in (b + 1)..Len(lines) : ~BorderLike(lines[i])

\* A status label was put into the bottom border.
LabelPut(line) == \E k \in 1..Len(line) : line[k] \in {"a", "c"}

\* C35: a frame has as many lines as the editor rendered, line for line:
\* the first line between the top corners; each line before the last border
\* line between vertical bars, followed by spaces up to innerWidth when it is
\* narrower, so that a line no wider than innerWidth comes out innerWidth + 2
\* wide; the last border line's place between the bottom corners, holding
\* that line itself unless a status label is put there; each line after it
\* between two spaces. Widths count what shows, colour codes left out; with
\* no border colour the editor's line, its own colour codes included, follows
\* the corner or bar as it is.
C35_FrameLines ==
    Framed =>
        LET lines == InnerLines
            out == renderCall.out
            innerWidth == renderCall.width - 2
            b == LastBorder(lines)
        IN /\ Len(out) = Len(lines)
           /\ Shown(out[1]) = <<"top-left">> \o Shown(lines[1]) \o <<"top-right">>
           /\ \A i \in 2..(b - 1) :
                /\ Shown(out[i]) =
                     <<"vertical">> \o Shown(lines[i])
                     \o [k \in 1..(innerWidth - Len(Shown(lines[i]))) |-> " "]
                     \o <<"vertical">>
                /\ Len(Shown(lines[i])) <= innerWidth => Len(Shown(out[i])) = innerWidth + 2
           /\ Head(Shown(out[b])) = "bottom-left"
           /\ Shown(out[b])[Len(Shown(out[b]))] = "bottom-right"
           /\ ~LabelPut(out[b]) =>
                Shown(out[b]) = <<"bottom-left">> \o Shown(lines[b]) \o <<"bottom-right">>
           /\ \A i \in (b + 1)..Len(lines) : out[i] = <<" ">> \o lines[i] \o <<" ">>
           /\ renderCall.borderColor = "none" =>
                \A i \in 1..(b - 1) : SubSeq(out[i], 2, Len(lines[i]) + 1) = lines[i]

\* C35 witness: a tinted short text between two borders and an overflowing
\* line below them, framed at width 8 with no colour and no status.
C35_Witness ==
    /\ Rendered
    /\ renderCall.width = 8
    /\ renderCall.shape = <<"border", "text", "border", "long">>
    /\ renderCall.borderColor = "none"
    /\ renderCall.footerDataRef = Empty
    /\ renderCall.out =
         << <<"top-left">> \o [i \in 1..6 |-> "dash"] \o <<"top-right">>,
            <<"vertical", "ESC[2m", "x", " ", "x", "ESC[39m", " ", " ", " ", "vertical">>,
            <<"bottom-left">> \o [i \in 1..6 |-> "dash"] \o <<"bottom-right">>,
            <<" ">> \o [i \in 1..7 |-> "x"] \o <<" ">> >>

\* The status text: the statuses joined by " · ", if the footer data hands
\* them out and there is one.
StatusText ==
    IF Has(renderCall.footerDataRef, "statuses")
    THEN JoinStatuses(renderCall.footerDataRef.statuses)
    ELSE <<>>

\* C36: with a status text, the place of the last border line holds, between
\* the bottom corners, innerWidth - (label length + 2) - 1 dashes, the label
\* between two spaces and one dash, innerWidth characters in all, exactly when
\* that number of dashes is 4 or more; when it is less, and when there is no
\* status text, it holds the editor's own border line. Lengths are string
\* lengths, and the colours the frame adds are not counted.
C36_LabelInBorder ==
    Framed =>
        LET innerWidth == renderCall.width - 2
            b == LastBorder(InnerLines)
            border == renderCall.borderColor
            label == IF renderCall.theme = "throws" THEN "plain" ELSE "tint"
            leftDashes == innerWidth - (length(StatusText) + 2) - 1
            chunk == <<" ">> \o StatusText \o <<" ">>
        IN IF StatusText /= <<>> /\ leftDashes >= 4
           THEN /\ renderCall.out[b] =
                     Paint(border, <<"bottom-left">>)
                     \o Paint(border, [k \in 1..leftDashes |-> "dash"])
                     \o Paint(label, chunk)
                     \o Paint(border, <<"dash">>)
                     \o Paint(border, <<"bottom-right">>)
                /\ leftDashes + length(chunk) + 1 = innerWidth
           ELSE renderCall.out[b] =
                     Paint(border, <<"bottom-left">>) \o InnerLines[b]
                     \o Paint(border, <<"bottom-right">>)

\* C36 witness: at width 11 the status "ab", in the theme's colour, leaves
\* room for exactly four dashes before it.
C36_Witness ==
    /\ Rendered
    /\ renderCall.width = 11
    /\ renderCall.shape = <<"border", "text", "border">>
    /\ renderCall.borderColor = "none"
    /\ renderCall.theme = "ok"
    /\ renderCall.out[3] =
         <<"bottom-left", "dash", "dash", "dash", "dash",
           "ESC[2m", " ", "a", "b", " ", "ESC[39m", "dash", "bottom-right">>

\* The footer renders so far, and the last one before event j that ran jj
\* (0 when there is none).
FooterRenders == {j \in 1..Len(footerLog) : footerLog[j].kind = "render"}
LastQuery(j) ==
    LET ran == {0} \cup {i \in FooterRenders : i < j /\ footerLog[i].ranJj}
    IN CHOOSE i \in ran : \A k \in ran : k <= i
BranchChanged(i, j) == \E b \in (i + 1)..(j - 1) : footerLog[b].kind = "branch"

\* The jj commands, when they last ran, failed: one of them threw.
QueryFailed ==
    LET jj == footerShown.jj
    IN Has(jj.rev, "thrown") \/ (Has(jj, "desc") /\ Has(jj.desc, "thrown"))

\* C37: a footer render runs no jj command when an earlier render ran one
\* less than 5000 ms before it (by the clock reading of line 62) and no
\* branch change came in between; the first render, the first render after a
\* branch change and a render 5000 ms or more after the last query run jj.
\* While the last query is one that failed, the footer shows the git branch
\* when there is one, and the path alone otherwise.
C37_JjCache ==
    /\ \A j \in FooterRenders :
        LET i == LastQuery(j)
            kept == /\ i > 0
                    /\ ~BranchChanged(i, j)
                    /\ footerLog[j].at - footerLog[i].at < 5000
        IN footerLog[j].ranJj = ~kept
    /\ (Has(footerShown, "left") /\ QueryFailed) =>
         (footerShown.left = IF Has(footerShown.gitBranch, "value")
                             THEN <<"cwd", [git |-> footerShown.gitBranch.value]>>
                             ELSE <<"cwd">>)

\* A query that fails is reused 2500 ms later, when the footer shows the git
\* branch, although jj took 2500 ms to fail.
C37_Witness ==
    /\ Len(footerLog) = 2
    /\ footerLog[1].ranJj
    /\ footerShown.jj = [rev |-> Threw]
    /\ footerLog[2].kind = "render" /\ ~footerLog[2].ranJj
    /\ footerLog[2].at = footerLog[1].at + 2500
    /\ now = 2500
    /\ footerShown.left = <<"cwd", [git |-> <<"m">>]>>

\* A branch change within 5000 ms of a query makes the next render run jj
\* again, and the footer shows what jj printed.
C37_WitnessBranch ==
    /\ Len(footerLog) = 3
    /\ footerLog[1].ranJj
    /\ footerLog[2].kind = "branch"
    /\ footerLog[3].kind = "render" /\ footerLog[3].ranJj
    /\ footerLog[3].at - footerLog[1].at < 5000
    /\ footerShown.left = <<"cwd", [jj |-> <<"k", "x">>, desc |-> <<"f", "i", "x">>]>>

====
